---- MODULE Spec2Model ----
(***************************************************************************)
(* PartFiles: the upload admission pipeline, the quota transaction, the    *)
(* read paths and the expiry sweep.                                         *)
(*                                                                         *)
(* Strings are sequences of one-character strings, so that the string      *)
(* functions of the source (basename, extname, split, toLowerCase,         *)
(* parseFloat, the regular expressions) are computed character by          *)
(* character.  Times are milliseconds since the start of the run.  Sizes   *)
(* are counted in KiB: the admin quota, 2 GiB, is 2^31 bytes and exceeds   *)
(* the 32-bit integers of the model checker; every size comparison of the  *)
(* source is between sums of sizes and is unchanged by the unit.           *)
(***************************************************************************)
EXTENDS Integers, Sequences, FiniteSets, TLC

\* null (of a nullable value v, present as Some(v)); an absent error is ""
NULL == <<>>
Some(v) == <<v>>
ValueOf(o) == o[1]
NOERROR == ""

(***************************************************************************)
(* Characters and strings                                                  *)
(***************************************************************************)
UpperChars == <<"A","B","C","D","E","F","G","H","I","J","K","L","M",
                "N","O","P","Q","R","S","T","U","V","W","X","Y","Z">>
LowerChars == <<"a","b","c","d","e","f","g","h","i","j","k","l","m",
                "n","o","p","q","r","s","t","u","v","w","x","y","z">>
DigitChars == <<"0","1","2","3","4","5","6","7","8","9">>

Range(s) == { s[i] : i \in DOMAIN s }

IsUpper(c) == c \in Range(UpperChars)
IsLower(c) == c \in Range(LowerChars)
IsDigit(c) == c \in Range(DigitChars)

\* String.prototype.toLowerCase, one character
LowerChar(c) ==
    IF IsUpper(c)
    THEN LowerChars[CHOOSE i \in DOMAIN UpperChars : UpperChars[i] = c]
    ELSE c

toLowerCase(s) == [i \in DOMAIN s |-> LowerChar(s[i])]

DigitValue(c) == (CHOOSE i \in DOMAIN DigitChars : DigitChars[i] = c) - 1

\* s.substring(a, b) with 0-based a <= b, as a 1-based sequence
Substring(s, a, b) ==
    LET lo == IF a < 0 THEN 0 ELSE IF a > Len(s) THEN Len(s) ELSE a
        hi == IF b < 0 THEN 0 ELSE IF b > Len(s) THEN Len(s) ELSE b
        x  == IF lo < hi THEN lo ELSE hi
        y  == IF lo < hi THEN hi ELSE lo
    IN  SubSeq(s, x + 1, y)

\* the 1-based positions of character c in s
Positions(s, c) == { i \in DOMAIN s : s[i] = c }

Max(S) == CHOOSE x \in S : \A y \in S : y <= x
Min(S) == CHOOSE x \in S : \A y \in S : x <= y

\* s without its trailing '/' characters
RECURSIVE StripTrailingSlashes(_)
StripTrailingSlashes(s) ==
    IF s # <<>> /\ s[Len(s)] = "/"
    THEN StripTrailingSlashes(SubSeq(s, 1, Len(s) - 1))
    ELSE s

\* path.basename (posix): the last path segment, trailing separators ignored
basename(p) ==
    LET q == StripTrailingSlashes(p)
        slashes == Positions(q, "/")
    IN  IF slashes = {} THEN q ELSE SubSeq(q, Max(slashes) + 1, Len(q))

\* path.extname (posix): from the last '.' of the basename to its end; empty
\* when there is no '.', when the only '.' is the first character of the
\* basename, and for the basename '..'
extname(p) ==
    LET b == basename(p)
        dots == Positions(b, ".")
    IN  IF dots = {} THEN <<>>
        ELSE IF Max(dots) = 1 THEN <<>>
        ELSE IF b = <<".", ".">> THEN <<>>
        ELSE SubSeq(b, Max(dots), Len(b))

\* s.split('.')
RECURSIVE SplitDots(_)
SplitDots(s) ==
    LET dots == Positions(s, ".")
    IN  IF dots = {} THEN <<s>>
        ELSE <<SubSeq(s, 1, Min(dots) - 1)>>
             \o SplitDots(SubSeq(s, Min(dots) + 1, Len(s)))

\* s.replace(/^\.+/, '')
RECURSIVE StripLeadingDots(_)
StripLeadingDots(s) ==
    IF s # <<>> /\ s[1] = "."
    THEN StripLeadingDots(SubSeq(s, 2, Len(s)))
    ELSE s

\* String.prototype.trim over the white space the inputs use
IsSpace(c) == c \in {" ", "\t", "\n"}

RECURSIVE TrimLeft(_)
TrimLeft(s) ==
    IF s # <<>> /\ IsSpace(s[1]) THEN TrimLeft(SubSeq(s, 2, Len(s))) ELSE s

RECURSIVE TrimRight(_)
TrimRight(s) ==
    IF s # <<>> /\ IsSpace(s[Len(s)])
    THEN TrimRight(SubSeq(s, 1, Len(s) - 1))
    ELSE s

trim(s) == TrimRight(TrimLeft(s))

(***************************************************************************)
(* Configuration (lib/config.ts)                                          *)
(***************************************************************************)
ROLES == {"admin", "uploader", "guest"}

\* STORAGE_LIMITS[role] ?? 0, in KiB
STORAGE_LIMITS(role) ==
    CASE role = "admin"    -> 2 * 1024 * 1024
      [] role = "uploader" -> 500 * 1024
      [] role = "guest"    -> 0
      [] OTHER             -> 0

\* 100 MB per file, in KiB
MAX_FILE_SIZE == 100 * 1024

MAX_EXPIRY_HOURS_UPLOADER == 168
\* String(DEFAULT_EXPIRY_HOURS)
DEFAULT_EXPIRY_HOURS == <<"1">>
MIN_EXPIRY_MINUTES == 5

ALLOWED_EXTENSIONS ==
    { <<".","j","p","g">>, <<".","j","p","e","g">>, <<".","p","n","g">>,
      <<".","g","i","f">>, <<".","w","e","b","p">>, <<".","b","m","p">>,
      <<".","i","c","o">>, <<".","t","i","f","f">>, <<".","a","v","i","f">>,
      <<".","p","d","f">>, <<".","d","o","c">>, <<".","d","o","c","x">>,
      <<".","x","l","s">>, <<".","x","l","s","x">>, <<".","p","p","t">>,
      <<".","p","p","t","x">>, <<".","o","d","t">>, <<".","o","d","s">>,
      <<".","o","d","p">>, <<".","t","x","t">>, <<".","c","s","v">>,
      <<".","r","t","f">>, <<".","z","i","p">>, <<".","t","a","r">>,
      <<".","g","z">>, <<".","b","z","2">>, <<".","7","z">>,
      <<".","r","a","r">>, <<".","m","p","3">>, <<".","m","p","4">>,
      <<".","w","a","v">>, <<".","o","g","g">>, <<".","w","e","b","m">>,
      <<".","a","v","i">>, <<".","m","o","v">>, <<".","f","l","v">>,
      <<".","m","k","v">>, <<".","j","s","o","n">>, <<".","x","m","l">>,
      <<".","y","a","m","l">>, <<".","y","m","l">>, <<".","w","o","f","f">>,
      <<".","w","o","f","f","2">>, <<".","t","t","f">>, <<".","o","t","f">>,
      <<".","e","o","t">> }

BLOCKED_EXTENSIONS ==
    { <<".","h","t","m","l">>, <<".","h","t","m">>, <<".","j","s">>,
      <<".","j","s","x">>, <<".","t","s">>, <<".","t","s","x">>,
      <<".","s","v","g">>, <<".","p","h","p">>, <<".","a","s","p">>,
      <<".","a","s","p","x">>, <<".","j","s","p">>, <<".","c","g","i">>,
      <<".","s","h">>, <<".","b","a","s","h">>, <<".","b","a","t">>,
      <<".","c","m","d">>, <<".","e","x","e">>, <<".","m","s","i">>,
      <<".","d","l","l">>, <<".","s","o">>, <<".","d","y","l","i","b">>,
      <<".","p","h","t","m","l">>, <<".","p","h","a","r">>, <<".","h","t","a","c","c","e","s","s">>,
      <<".","h","t","p","a","s","s","w","d">>, <<".","x","s","l","t">> }

\* PREVIEWABLE_MIMES of lib/preview.ts
PREVIEWABLE_MIMES ==
    {"image/jpeg", "image/png", "image/gif", "image/webp", "image/avif",
     "image/tiff", "image/bmp"}

isPreviewable(mimeType) == mimeType \in PREVIEWABLE_MIMES

\* lookup(originalName) || 'application/octet-stream' of the mime-types
\* package, for the extensions the model's file names use
lookup(name) ==
    LET e == toLowerCase(extname(name))
    IN  CASE e \in {<<".","j","p","g">>, <<".","j","p","e","g">>} -> "image/jpeg"
          [] e = <<".","p","n","g">> -> "image/png"
          [] e = <<".","g","i","f">> -> "image/gif"
          [] e = <<".","t","x","t">> -> "text/plain"
          [] e = <<".","p","d","f">> -> "application/pdf"
          [] e = <<".","h","t","m","l">> -> "text/html"
          [] OTHER -> "application/octet-stream"

(***************************************************************************)
(* Permissions (lib/permissions.ts)                                       *)
(***************************************************************************)
isAdmin(role) == role = "admin"

canUpload(role) == role \in {"admin", "uploader"}

(***************************************************************************)
(* Validation (lib/validation.ts)                                         *)
(***************************************************************************)
\* [^a-zA-Z0-9._-]
IsUnsafeChar(c) == ~(IsUpper(c) \/ IsLower(c) \/ IsDigit(c) \/ c \in {".", "_", "-"})

MAX_NAME_LENGTH == 200

UNNAMED_FILE == <<"u","n","n","a","m","e","d","_","f","i","l","e">>

sanitizeFilename(filename) ==
    LET based    == basename(filename)
        replaced == [i \in DOMAIN based |->
                        IF IsUnsafeChar(based[i]) THEN "_" ELSE based[i]]
        undotted == StripLeadingDots(replaced)
        limited  == IF Len(undotted) > MAX_NAME_LENGTH
                    THEN LET ext == extname(undotted)
                         IN  Substring(undotted, 0, MAX_NAME_LENGTH - Len(ext)) \o ext
                    ELSE undotted
    IN  IF limited = <<>> THEN UNNAMED_FILE ELSE limited

\* the hidden extensions the loop for (i = 1; i < parts.length - 1; i++)
\* visits, in order: '.' + parts[i] for the interior parts of the name
HiddenExts(filename) ==
    LET parts == SplitDots(toLowerCase(filename))
    IN  [i \in 1..(IF Len(parts) >= 2 THEN Len(parts) - 2 ELSE 0) |->
            <<".">> \o parts[i + 1]]

\* a validation that consults the allow-list before the block-list
validateExtensionAllowFirst(filename, allowed, blocked) ==
    LET ext     == toLowerCase(extname(filename))
        hidden  == HiddenExts(filename)
        hits    == { i \in DOMAIN hidden : hidden[i] \in blocked }
    IN  IF ext = <<>>
        THEN [valid |-> FALSE, extension |-> <<>>,
              error |-> "File must have an extension"]
        ELSE IF hits # {}
        THEN [valid |-> FALSE, extension |-> hidden[Min(hits)],
              error |-> "Filename contains blocked extension"]
        ELSE IF ext \in allowed
        THEN [valid |-> TRUE, extension |-> ext, error |-> NOERROR]
        ELSE IF ext \in blocked
        THEN [valid |-> FALSE, extension |-> ext,
              error |-> "File extension is blocked for security reasons"]
        ELSE [valid |-> FALSE, extension |-> ext,
              error |-> "File extension is not allowed"]

\* validateExtension(filename) with ALLOWED_EXTENSIONS = allowed and
\* BLOCKED_EXTENSIONS = blocked
validateExtensionWith(filename, allowed, blocked) ==
    LET ext     == toLowerCase(extname(filename))
        hidden  == HiddenExts(filename)
        hits    == { i \in DOMAIN hidden : hidden[i] \in blocked }
    IN  IF ext = <<>>
        THEN [valid |-> FALSE, extension |-> <<>>,
              error |-> "File must have an extension"]
        ELSE IF hits # {}
        THEN [valid |-> FALSE, extension |-> hidden[Min(hits)],
              error |-> "Filename contains blocked extension"]
        ELSE IF ext \in blocked
        THEN [valid |-> FALSE, extension |-> ext,
              error |-> "File extension is blocked for security reasons"]
        ELSE IF ext \notin allowed
        THEN [valid |-> FALSE, extension |-> ext,
              error |-> "File extension is not allowed"]
        ELSE [valid |-> TRUE, extension |-> ext, error |-> NOERROR]

validateExtension(filename) ==
    validateExtensionWith(filename, ALLOWED_EXTENSIONS, BLOCKED_EXTENSIONS)

validateFileSize(size) ==
    IF size <= 0 THEN [valid |-> FALSE, error |-> "File is empty"]
    ELSE IF size > MAX_FILE_SIZE
    THEN [valid |-> FALSE, error |-> "File exceeds maximum size"]
    ELSE [valid |-> TRUE, error |-> NOERROR]

\* parseFloat keeps three decimals in the model: a number is its value
\* times MILLI
MILLI == 1000

\* the longest prefix of s made of digits
RECURSIVE DigitPrefix(_)
DigitPrefix(s) ==
    IF s # <<>> /\ IsDigit(s[1])
    THEN <<s[1]>> \o DigitPrefix(SubSeq(s, 2, Len(s)))
    ELSE <<>>

RECURSIVE DigitsValue(_)
DigitsValue(ds) ==
    IF ds = <<>> THEN 0
    ELSE DigitsValue(SubSeq(ds, 1, Len(ds) - 1)) * 10 + DigitValue(ds[Len(ds)])

\* parseFloat(s): leading white space, an optional sign, digits with an
\* optional fraction; whatever follows is ignored; NaN when no digit is found.
\* The result is [nan, milli] with milli = value * MILLI.
parseFloat(s) ==
    LET t        == TrimLeft(s)
        signed   == t # <<>> /\ t[1] \in {"-", "+"}
        negative == signed /\ t[1] = "-"
        u        == IF signed THEN SubSeq(t, 2, Len(t)) ELSE t
        ip       == DigitPrefix(u)
        rest     == SubSeq(u, Len(ip) + 1, Len(u))
        fp       == IF rest # <<>> /\ rest[1] = "."
                    THEN DigitPrefix(SubSeq(rest, 2, Len(rest)))
                    ELSE <<>>
        fp3      == SubSeq(fp \o <<"0","0","0">>, 1, 3)
        mag      == DigitsValue(ip) * MILLI + DigitsValue(fp3)
    IN  IF ip = <<>> /\ fp = <<>>
        THEN [nan |-> TRUE, milli |-> 0]
        ELSE [nan |-> FALSE, milli |-> IF negative THEN 0 - mag ELSE mag]

OFF == <<"o","f","f">>

\* a validation whose ceiling applies to every role
validateExpiryCeilingForAll(role, expiryOption, t) ==
    IF expiryOption = Some(OFF) \/ expiryOption = NULL
    THEN IF ~isAdmin(role)
         THEN [valid |-> FALSE, expiresAt |-> NULL,
               error |-> "Only admins can set content to never expire"]
         ELSE [valid |-> TRUE, expiresAt |-> NULL, error |-> NOERROR]
    ELSE LET hours == parseFloat(ValueOf(expiryOption))
         IN  IF hours.nan \/ hours.milli <= 0
             THEN [valid |-> FALSE, expiresAt |-> NULL,
                   error |-> "Invalid expiry time"]
             ELSE IF hours.milli * 60 < MIN_EXPIRY_MINUTES * MILLI
             THEN [valid |-> FALSE, expiresAt |-> NULL,
                   error |-> "Expiry must be at least 5 minutes"]
             ELSE IF hours.milli > MAX_EXPIRY_HOURS_UPLOADER * MILLI
             THEN [valid |-> FALSE, expiresAt |-> NULL,
                   error |-> "Uploaders can set expiry up to 168 hours"]
             ELSE [valid |-> TRUE,
                   expiresAt |-> Some(t + hours.milli * ((60 * 60 * 1000) \div MILLI)),
                   error |-> NOERROR]

\* validateExpiry(role, expiryOption) evaluated at time t (Date.now());
\* expiryOption is NULL or Some(string), the result's expiresAt NULL or Some(time)
validateExpiry(role, expiryOption, t) ==
    IF expiryOption = Some(OFF) \/ expiryOption = NULL
    THEN IF ~isAdmin(role)
         THEN [valid |-> FALSE, expiresAt |-> NULL,
               error |-> "Only admins can set content to never expire"]
         ELSE [valid |-> TRUE, expiresAt |-> NULL, error |-> NOERROR]
    ELSE LET hours == parseFloat(ValueOf(expiryOption))
         IN  IF hours.nan \/ hours.milli <= 0
             THEN [valid |-> FALSE, expiresAt |-> NULL,
                   error |-> "Invalid expiry time"]
             ELSE IF hours.milli * 60 < MIN_EXPIRY_MINUTES * MILLI
             THEN [valid |-> FALSE, expiresAt |-> NULL,
                   error |-> "Expiry must be at least 5 minutes"]
             ELSE IF ~isAdmin(role) /\ hours.milli > MAX_EXPIRY_HOURS_UPLOADER * MILLI
             THEN [valid |-> FALSE, expiresAt |-> NULL,
                   error |-> "Uploaders can set expiry up to 168 hours"]
             ELSE [valid |-> TRUE,
                   expiresAt |-> Some(t + hours.milli * ((60 * 60 * 1000) \div MILLI)),
                   error |-> NOERROR]

\* /^[a-z0-9]+(?:-[a-z0-9]+)*$/ : the groups between hyphens are all
\* non-empty and made of lowercase letters and digits
RECURSIVE SplitHyphens(_)
SplitHyphens(s) ==
    LET hs == Positions(s, "-")
    IN  IF hs = {} THEN <<s>>
        ELSE <<SubSeq(s, 1, Min(hs) - 1)>>
             \o SplitHyphens(SubSeq(s, Min(hs) + 1, Len(s)))

MatchesSlugFormat(s) ==
    LET groups == SplitHyphens(s)
    IN  \A i \in DOMAIN groups :
            /\ groups[i] # <<>>
            /\ \A j \in DOMAIN groups[i] :
                   IsLower(groups[i][j]) \/ IsDigit(groups[i][j])

MAX_SLUG_LENGTH == 100

validateShortSlug(slug) ==
    LET normalised == toLowerCase(trim(slug))
    IN  IF normalised = <<>>
        THEN [valid |-> FALSE, slug |-> <<>>, error |-> "Short slug cannot be empty"]
        ELSE IF Len(normalised) > MAX_SLUG_LENGTH
        THEN [valid |-> FALSE, slug |-> normalised,
              error |-> "Short slug must be 100 characters or fewer"]
        ELSE IF ~MatchesSlugFormat(normalised)
        THEN [valid |-> FALSE, slug |-> normalised,
              error |-> "Short slug may only contain lowercase letters, numbers, and hyphens"]
        ELSE [valid |-> TRUE, slug |-> normalised, error |-> NOERROR]

(***************************************************************************)
(* Bounds and inputs of the model                                         *)
(***************************************************************************)
\* the clock advances in steps of one hour, at most MaxTicks times
MaxTicks == 2
HOUR_MS == 60 * 60 * 1000

\* the concurrent upload requests
Procs == {"p1", "p2"}

Uploader == Some([id |-> "u1", role |-> "uploader"])
Admin    == Some([id |-> "a1", role |-> "admin"])
Guest    == Some([id |-> "g1", role |-> "guest"])

PhotoName   == <<"a",".","J","P","G">>
TextName    == <<"b",".","t","x","t">>
HiddenName  == <<"x",".","h","t","m","l",".","j","p","g">>
BlockedName == <<"x",".","e","x","e">>
NoExtName   == <<"R","E","A","D","M","E">>
UnknownName == <<"x",".","z","z","z">>
CustomName  == <<".",".","/","m","y"," ","f",".","p","n","g">>

SlugS1      == <<" ","S","1"," ">>
SlugS1Lower == <<"s","1">>
SlugBad     == <<"a","-","-","b">>
SlugBlank   == <<" ">>
SlugLong    == [i \in 1..(MAX_SLUG_LENGTH + 1) |-> "a"]

DocsName    == <<"d","o","c","s">>
OtherDir    == <<"t","m","p">>

\* the AllowedDirectory table (name -> path)
AllowedDirectories == { [name |-> DocsName, path |-> "docs"] }

BaseUpload ==
    [route |-> "upload", session |-> Uploader,
     file |-> Some([name |-> PhotoName, size |-> 1]),
     filename |-> NULL, expiry |-> NULL, directory |-> NULL, shortSlug |-> NULL]

BaseAdmin ==
    [route |-> "admin", session |-> Admin,
     file |-> Some([name |-> PhotoName, size |-> 1]),
     filename |-> NULL, expiry |-> NULL, directory |-> Some(DocsName),
     shortSlug |-> Some(SlugS1)]

\* requests that pass every validation when the quota allows
GoodRequests ==
    { BaseUpload,
      [BaseUpload EXCEPT !.session = Admin, !.expiry = Some(<<"2","0","0">>),
                         !.filename = Some(CustomName)],
      BaseAdmin,
      [BaseAdmin EXCEPT !.file = Some([name |-> TextName, size |-> 2]),
                        !.expiry = Some(<<"1">>), !.directory = NULL,
                        !.shortSlug = Some(SlugS1Lower)] }

\* requests that fail one validation each
BadRequests ==
    { [BaseUpload EXCEPT !.session = NULL],
      [BaseUpload EXCEPT !.session = Guest],
      [BaseAdmin  EXCEPT !.session = NULL],
      [BaseAdmin  EXCEPT !.session = Uploader],
      [BaseAdmin  EXCEPT !.session = Guest],
      [BaseUpload EXCEPT !.session = NULL, !.file = NULL],
      [BaseAdmin  EXCEPT !.session = Uploader, !.shortSlug = Some(SlugBad),
                         !.file = Some([name |-> BlockedName, size |-> 0])],
      [BaseUpload EXCEPT !.file = NULL],
      [BaseUpload EXCEPT !.file = Some([name |-> PhotoName, size |-> 0])],
      [BaseAdmin  EXCEPT !.file = Some([name |-> PhotoName, size |-> MAX_FILE_SIZE + 1])],
      [BaseUpload EXCEPT !.file = Some([name |-> HiddenName, size |-> 1])],
      [BaseAdmin  EXCEPT !.file = Some([name |-> BlockedName, size |-> 1])],
      [BaseUpload EXCEPT !.file = Some([name |-> NoExtName, size |-> 1])],
      [BaseUpload EXCEPT !.file = Some([name |-> UnknownName, size |-> 1])],
      [BaseUpload EXCEPT !.file = Some([name |-> PhotoName, size |-> 2])],
      [BaseUpload EXCEPT !.expiry = Some(OFF)],
      [BaseUpload EXCEPT !.expiry = Some(<<"2","0","0">>)],
      [BaseUpload EXCEPT !.expiry = Some(<<"0",".","0","5">>)],
      [BaseAdmin  EXCEPT !.expiry = Some(<<"a","b","c">>)],
      [BaseAdmin  EXCEPT !.directory = Some(OtherDir)],
      [BaseAdmin  EXCEPT !.shortSlug = Some(SlugBad)],
      [BaseAdmin  EXCEPT !.shortSlug = Some(SlugBlank)],
      [BaseAdmin  EXCEPT !.shortSlug = Some(SlugLong)] }

\* requests that fail several validations at once
ManyBadRequests ==
    { [BaseUpload EXCEPT !.file = Some([name |-> HiddenName, size |-> 0]),
                         !.expiry = Some(<<"a","b","c">>)],
      [BaseAdmin  EXCEPT !.file = Some([name |-> BlockedName, size |-> 3]),
                         !.expiry = Some(<<"a","b","c">>),
                         !.directory = Some(OtherDir), !.shortSlug = Some(SlugBad)],
      [BaseUpload EXCEPT !.file = Some([name |-> PhotoName, size |-> 2]),
                         !.expiry = Some(OFF)],
      [BaseAdmin  EXCEPT !.file = Some([name |-> PhotoName, size |-> 3]),
                         !.expiry = Some(<<"a","b","c">>),
                         !.directory = Some(OtherDir), !.shortSlug = Some(SlugBad)],
      [BaseAdmin  EXCEPT !.expiry = Some(<<"a","b","c">>),
                         !.directory = Some(OtherDir), !.shortSlug = Some(SlugBad)],
      [BaseAdmin  EXCEPT !.directory = Some(OtherDir), !.shortSlug = Some(SlugBad)] }

Requests == GoodRequests \cup BadRequests \cup ManyBadRequests

(***************************************************************************)
(* State                                                                   *)
(***************************************************************************)
VARIABLES
    now,        \* Date.now(), in ms
    content,    \* the Content table: a set of records
    shortSlug,  \* the ShortSlug table: a set of [slug, contentId]
    blobs,      \* the storage paths that hold a file on disk
    up,         \* the upload requests: Procs -> locals and response
    calls,      \* per request, the storage calls it has made (history)
    cronSecret, \* process.env.CRON_SECRET
    sweep,      \* the request to POST /api/cron/cleanup: locals and response
    client,     \* a request to a serving route or to admin DELETE
    rateLimitMap,   \* the preview route's rate-limit entries, by IP
    lastCleanup,    \* the time of the last cleanupRateLimits pass
    edit,       \* the requests to PUT /api/admin/content/[id]: Editors -> locals
    pure,       \* a library function under evaluation: its input and result
    admitted    \* history: per IP, the preview requests let through of late

\* the state of the serving, deleting and sweeping requests
serveVars ==
    <<cronSecret, sweep, client, rateLimitMap, lastCleanup, edit, pure, admitted>>

vars == <<now, content, shortSlug, blobs, up, calls, serveVars>>

RECURSIVE SumSizes(_)
SumSizes(S) ==
    IF S = {} THEN 0
    ELSE LET c == CHOOSE x \in S : TRUE
         IN  c.fileSize + SumSizes(S \ {c})

\* where: OR [{expiresAt: null}, {expiresAt: {gt: t}}]
IsActive(c, t) == c.expiresAt = NULL \/ ValueOf(c.expiresAt) > t

\* prisma.content.aggregate({where: {uploadedById, OR: [...]}, _sum: fileSize})
\* with _sum.fileSize ?? 0
ActiveUsage(userId, t) ==
    SumSizes({ c \in content : c.uploadedById = userId /\ IsActive(c, t) })

\* a pre-check that refuses the upload that would fill the quota exactly
validateStorageLimitBelowQuota(userId, role, newFileSize, t) ==
    LET limit == STORAGE_LIMITS(role)
        currentUsage == ActiveUsage(userId, t)
    IN  IF limit = 0
        THEN [valid |-> FALSE, currentUsage |-> 0, limit |-> 0,
              error |-> "Your role does not allow uploads"]
        ELSE IF currentUsage + newFileSize >= limit
        THEN [valid |-> FALSE, currentUsage |-> currentUsage, limit |-> limit,
              error |-> "Storage limit exceeded"]
        ELSE [valid |-> TRUE, currentUsage |-> currentUsage, limit |-> limit,
              error |-> NOERROR]

\* the decision of validateStorageLimit(userId, role, newFileSize) at time t
validateStorageLimit(userId, role, newFileSize, t) ==
    LET limit == STORAGE_LIMITS(role)
        currentUsage == ActiveUsage(userId, t)
    IN  IF limit = 0
        THEN [valid |-> FALSE, currentUsage |-> 0, limit |-> 0,
              error |-> "Your role does not allow uploads"]
        ELSE IF currentUsage + newFileSize > limit
        THEN [valid |-> FALSE, currentUsage |-> currentUsage, limit |-> limit,
              error |-> "Storage limit exceeded"]
        ELSE [valid |-> TRUE, currentUsage |-> currentUsage, limit |-> limit,
              error |-> NOERROR]

\* a re-check that forgets the size of the file being added
StorageCheckIgnoresNewFile(userId, role, fileSize, t) ==
    ActiveUsage(userId, t) > STORAGE_LIMITS(role)

\* the check inside the transaction of createContentWithStorageCheck:
\* TRUE when StorageLimitError is thrown
StorageCheckFails(userId, role, fileSize, t) ==
    ActiveUsage(userId, t) + fileSize > STORAGE_LIMITS(role)

\* checkSlugCollision(slug, excludeContentId); excludeContentId may be NULL
checkSlugCollision(slug, excludeContentId) ==
    \E existing \in shortSlug :
        existing.slug = slug /\ Some(existing.contentId) # excludeContentId

(***************************************************************************)
(* Blob storage (lib/storage.ts) and previews (lib/preview.ts)            *)
(***************************************************************************)
\* the path saveFile(buffer, storedFilename, subDir) returns; storedFilename
\* is `${uuidv4()}-${sanitized}`, the uuid being the request's own token
StoredPath(subDir, uuid, sanitized) ==
    <<IF subDir = NULL THEN "" ELSE ValueOf(subDir), uuid, sanitized>>

\* the path of the preview saved as `preview-${storedFilename}.jpg`
PreviewPathOf(subDir, uuid, sanitized) ==
    <<IF subDir = NULL THEN "" ELSE ValueOf(subDir), uuid, sanitized, "preview.jpg">>

\* the storage calls a request has made: [op, path, ok]
Call(op, path, ok) == [op |-> op, path |-> path, ok |-> ok]

(***************************************************************************)
(* POST /api/upload and POST /api/admin/upload                            *)
(***************************************************************************)
IdleUp ==
    [pc |-> "idle", req |-> NULL, expiresAt |-> NULL, subDir |-> NULL,
     validatedSlug |-> NULL, storagePath |-> NULL, previewPath |-> NULL,
     error |-> NOERROR, response |-> NULL]

\* NextResponse.json(body, {status}); step names the statement that returned
Respond(status, error, step) ==
    Some([status |-> status, error |-> error, step |-> step])

Finished(r, response) ==
    [IdleUp EXCEPT !.pc = "done", !.req = Some(r), !.response = response]

\* a role check that is canUpload(role) on both routes
AuthorizedByCanUpload(route, role) == canUpload(role)

\* canUpload(role) on /api/upload, isAdmin(role) on /api/admin/upload
Authorized(route, role) ==
    IF route = "admin" THEN isAdmin(role) ELSE canUpload(role)

IsFalsy(o) == o = NULL \/ o = Some(<<>>)

\* (formData.get('expiry') as string) || String(DEFAULT_EXPIRY_HOURS) / 'off'
ExpiryOption(r) ==
    IF IsFalsy(r.expiry)
    THEN IF r.route = "admin" THEN Some(OFF) ELSE Some(DEFAULT_EXPIRY_HOURS)
    ELSE r.expiry

\* file.name || 'unnamed'
OriginalName(r) ==
    IF ValueOf(r.file).name = <<>>
    THEN <<"u","n","n","a","m","e","d">>
    ELSE ValueOf(r.file).name

\* sanitizeFilename(customFilename || originalName)
Sanitized(r) ==
    sanitizeFilename(IF IsFalsy(r.filename) THEN OriginalName(r)
                     ELSE ValueOf(r.filename))

\* generateContentId() and uuidv4(): fresh for every request
\* (an identifier is a triple: kind, owner or request, serial number)
ContentIdOf(p) == <<"c", p, 0>>
UuidOf(p) == <<"up", p, 0>>

\* a handler that validates the expiry before the quota pre-check
StartOutcomeExpiryFirst(r, t) ==
    IF r.session = NULL
    THEN [returned |-> TRUE, response |-> Respond(401, "Unauthorized", "auth")]
    ELSE
    LET user == ValueOf(r.session) IN
    IF ~Authorized(r.route, user.role)
    THEN [returned |-> TRUE, response |-> Respond(403, "Forbidden", "role")]
    ELSE IF r.file = NULL
    THEN [returned |-> TRUE, response |-> Respond(400, "No file provided", "file")]
    ELSE
    LET file          == ValueOf(r.file)
        sizeResult    == validateFileSize(file.size)
        extResult     == validateExtension(OriginalName(r))
        storageResult == validateStorageLimit(user.id, user.role, file.size, t)
        expiryResult  == validateExpiry(user.role, ExpiryOption(r), t)
        wantsDir      == r.route = "admin" /\ ~IsFalsy(r.directory)
        allowedDir    == { d \in AllowedDirectories : d.name = ValueOf(r.directory) }
        subDir        == IF wantsDir /\ allowedDir # {}
                         THEN Some((CHOOSE d \in allowedDir : TRUE).path)
                         ELSE NULL
        wantsSlug     == r.route = "admin" /\ ~IsFalsy(r.shortSlug)
        slugResult    == validateShortSlug(ValueOf(r.shortSlug))
    IN
    IF ~sizeResult.valid
    THEN [returned |-> TRUE, response |-> Respond(400, sizeResult.error, "size")]
    ELSE IF ~extResult.valid
    THEN [returned |-> TRUE, response |-> Respond(400, extResult.error, "extension")]
    ELSE IF ~expiryResult.valid
    THEN [returned |-> TRUE, response |-> Respond(400, expiryResult.error, "expiry")]
    ELSE IF ~storageResult.valid
    THEN [returned |-> TRUE, response |-> Respond(400, storageResult.error, "storage")]
    ELSE IF wantsDir /\ allowedDir = {}
    THEN [returned |-> TRUE,
          response |-> Respond(400, "Directory is not in the allowed list", "directory")]
    ELSE IF wantsSlug /\ ~slugResult.valid
    THEN [returned |-> TRUE, response |-> Respond(400, slugResult.error, "slugFormat")]
    ELSE [returned |-> FALSE,
          locals |-> [IdleUp EXCEPT
                        !.pc = IF wantsSlug THEN "slugcheck" ELSE "save",
                        !.req = Some(r),
                        !.expiresAt = expiryResult.expiresAt,
                        !.subDir = subDir,
                        !.validatedSlug = IF wantsSlug THEN Some(slugResult.slug)
                                          ELSE NULL]]

\* The handler from its entry to its first awaited access to shared state
\* after the quota pre-check: authentication, the role, the file, size,
\* extension, quota pre-check, expiry, and for the admin route the
\* directory lookup and the slug format.  The result is the response when
\* the handler returned, or the locals it goes on with.
StartOutcome(r, t) ==
    IF r.session = NULL
    THEN [returned |-> TRUE, response |-> Respond(401, "Unauthorized", "auth")]
    ELSE
    LET user == ValueOf(r.session) IN
    IF ~Authorized(r.route, user.role)
    THEN [returned |-> TRUE, response |-> Respond(403, "Forbidden", "role")]
    ELSE IF r.file = NULL
    THEN [returned |-> TRUE, response |-> Respond(400, "No file provided", "file")]
    ELSE
    LET file          == ValueOf(r.file)
        sizeResult    == validateFileSize(file.size)
        extResult     == validateExtension(OriginalName(r))
        storageResult == validateStorageLimit(user.id, user.role, file.size, t)
        expiryResult  == validateExpiry(user.role, ExpiryOption(r), t)
        wantsDir      == r.route = "admin" /\ ~IsFalsy(r.directory)
        allowedDir    == { d \in AllowedDirectories : d.name = ValueOf(r.directory) }
        subDir        == IF wantsDir /\ allowedDir # {}
                         THEN Some((CHOOSE d \in allowedDir : TRUE).path)
                         ELSE NULL
        wantsSlug     == r.route = "admin" /\ ~IsFalsy(r.shortSlug)
        slugResult    == validateShortSlug(ValueOf(r.shortSlug))
    IN
    IF ~sizeResult.valid
    THEN [returned |-> TRUE, response |-> Respond(400, sizeResult.error, "size")]
    ELSE IF ~extResult.valid
    THEN [returned |-> TRUE, response |-> Respond(400, extResult.error, "extension")]
    ELSE IF ~storageResult.valid
    THEN [returned |-> TRUE, response |-> Respond(400, storageResult.error, "storage")]
    ELSE IF ~expiryResult.valid
    THEN [returned |-> TRUE, response |-> Respond(400, expiryResult.error, "expiry")]
    ELSE IF wantsDir /\ allowedDir = {}
    THEN [returned |-> TRUE,
          response |-> Respond(400, "Directory is not in the allowed list", "directory")]
    ELSE IF wantsSlug /\ ~slugResult.valid
    THEN [returned |-> TRUE, response |-> Respond(400, slugResult.error, "slugFormat")]
    ELSE [returned |-> FALSE,
          locals |-> [IdleUp EXCEPT
                        !.pc = IF wantsSlug THEN "slugcheck" ELSE "save",
                        !.req = Some(r),
                        !.expiresAt = expiryResult.expiresAt,
                        !.subDir = subDir,
                        !.validatedSlug = IF wantsSlug THEN Some(slugResult.slug)
                                          ELSE NULL]]

\* a request out of `requests` arrives at process p
UploadStartOf(p, requests) ==
    /\ up[p].pc = "idle"
    /\ \E r \in requests :
          LET out == StartOutcome(r, now)
          IN  up' = [up EXCEPT ![p] = IF out.returned
                                      THEN Finished(r, out.response)
                                      ELSE out.locals]
    /\ UNCHANGED <<now, content, shortSlug, blobs, calls, serveVars>>

UploadStart(p) == UploadStartOf(p, Requests)

\* a handler that writes the blob before it looks for the slug collision
UploadSlugCheckAfterSave(p) ==
    /\ up[p].pc = "slugcheck"
    /\ LET r    == ValueOf(up[p].req)
           path == StoredPath(up[p].subDir, UuidOf(p), Sanitized(r))
       IN  /\ calls' = [calls EXCEPT ![p] = @ \cup {Call("saveFile", path, TRUE)}]
           /\ blobs' = blobs \cup {path}
           /\ up' = [up EXCEPT ![p] =
                       IF checkSlugCollision(ValueOf(up[p].validatedSlug), NULL)
                       THEN Finished(r, Respond(409, "Short slug is already in use",
                                                "slugCollision"))
                       ELSE [up[p] EXCEPT !.pc = "preview", !.storagePath = path]]
    /\ UNCHANGED <<now, content, shortSlug, serveVars>>

\* await checkSlugCollision(slugResult.slug)
UploadSlugCheck(p) ==
    /\ up[p].pc = "slugcheck"
    /\ up' = [up EXCEPT ![p] =
                IF checkSlugCollision(ValueOf(up[p].validatedSlug), NULL)
                THEN Finished(ValueOf(up[p].req),
                              Respond(409, "Short slug is already in use", "slugCollision"))
                ELSE [up[p] EXCEPT !.pc = "save"]]
    /\ UNCHANGED <<now, content, shortSlug, blobs, calls, serveVars>>

\* storagePath = await saveFile(buffer, storedFilename, subDir); when it
\* throws, the catch block finds storagePath and previewPath null
UploadSaveFile(p) ==
    /\ up[p].pc = "save"
    /\ LET r    == ValueOf(up[p].req)
           path == StoredPath(up[p].subDir, UuidOf(p), Sanitized(r))
       IN  \E ok \in BOOLEAN :
              /\ calls' = [calls EXCEPT ![p] = @ \cup {Call("saveFile", path, ok)}]
              /\ blobs' = IF ok THEN blobs \cup {path} ELSE blobs
              /\ up' = [up EXCEPT ![p] =
                          IF ok
                          THEN [up[p] EXCEPT !.pc = "preview", !.storagePath = path]
                          ELSE Finished(r, Respond(500, "Upload failed", "saveFile"))]
    /\ UNCHANGED <<now, content, shortSlug, serveVars>>

\* a generateAndSavePreview that lets the failure of sharp and of the
\* preview's saveFile reach its caller
generateAndSavePreviewRethrows(mimeType, sharpOk, saveOk, ppath) ==
    IF ~isPreviewable(mimeType)
    THEN [thrown |-> FALSE, saved |-> FALSE, previewPath |-> NULL]
    ELSE IF ~sharpOk \/ ~saveOk
    THEN [thrown |-> TRUE, saved |-> FALSE, previewPath |-> NULL]
    ELSE [thrown |-> FALSE, saved |-> TRUE, previewPath |-> ppath]

\* generateAndSavePreview(imageBuffer, mimeType, storedFilename, subDir):
\* null when the type is not previewable, when generatePreviewBuffer caught
\* the failure of sharp (sharpOk false), and when the saveFile of the
\* preview was rejected (saveOk false); otherwise the path saveFile returned
generateAndSavePreview(mimeType, sharpOk, saveOk, ppath) ==
    IF ~isPreviewable(mimeType)
    THEN [thrown |-> FALSE, saved |-> FALSE, previewPath |-> NULL]
    ELSE IF ~sharpOk
    THEN [thrown |-> FALSE, saved |-> FALSE, previewPath |-> NULL]
    ELSE IF ~saveOk
    THEN [thrown |-> FALSE, saved |-> FALSE, previewPath |-> NULL]
    ELSE [thrown |-> FALSE, saved |-> TRUE, previewPath |-> ppath]

\* previewPath = await generateAndSavePreview(buffer, mimeType, storedFilename,
\* subDir), inside the handler's try block: an exception would reach the
\* catch block
UploadPreview(p) ==
    /\ up[p].pc = "preview"
    /\ LET r     == ValueOf(up[p].req)
           ppath == PreviewPathOf(up[p].subDir, UuidOf(p), Sanitized(r))
       IN  \E sharpOk \in BOOLEAN : \E saveOk \in BOOLEAN :
              LET res == generateAndSavePreview(lookup(OriginalName(r)),
                                                sharpOk, saveOk, ppath)
              IN  /\ calls' = IF res.saved
                              THEN [calls EXCEPT ![p] = @ \cup {Call("savePreview", ppath, TRUE)}]
                              ELSE calls
                  /\ blobs' = IF res.saved THEN blobs \cup {ppath} ELSE blobs
                  /\ up' = [up EXCEPT ![p] =
                              IF res.thrown
                              THEN [up[p] EXCEPT !.pc = "cleanupFile", !.error = "Error"]
                              ELSE [up[p] EXCEPT !.pc = "commit",
                                                 !.previewPath = res.previewPath]]
    /\ UNCHANGED <<now, content, shortSlug, serveVars>>

\* the record createContentWithStorageCheck creates
NewContent(p) ==
    LET r == ValueOf(up[p].req)
    IN  [id               |-> ContentIdOf(p),
         filename         |-> Sanitized(r),
         originalFilename |-> OriginalName(r),
         storagePath      |-> up[p].storagePath,
         previewPath      |-> up[p].previewPath,
         directory        |-> IF r.route = "admin" /\ ~IsFalsy(r.directory)
                              THEN r.directory ELSE NULL,
         fileSize         |-> ValueOf(r.file).size,
         fileExtension    |-> validateExtension(OriginalName(r)).extension,
         mimeType         |-> lookup(OriginalName(r)),
         expiresAt        |-> up[p].expiresAt,
         uploadedById     |-> ValueOf(r.session).id]

\* a transaction that creates the record without the re-check
createContentWithoutStorageCheck(p) ==
    [thrown |-> FALSE, content |-> content \cup {NewContent(p)}]

\* createContentWithStorageCheck(userId, role, data): one transaction; it
\* throws StorageLimitError and creates nothing, or creates the record
createContentWithStorageCheck(p) ==
    LET r    == ValueOf(up[p].req)
        user == ValueOf(r.session)
    IN  IF StorageCheckFails(user.id, user.role, ValueOf(r.file).size, now)
        THEN [thrown |-> TRUE, content |-> content]
        ELSE [thrown |-> FALSE, content |-> content \cup {NewContent(p)}]

\* await createContentWithStorageCheck(...), and the response when no slug
\* is to be created
UploadCommit(p) ==
    /\ up[p].pc = "commit"
    /\ LET r  == ValueOf(up[p].req)
           tx == createContentWithStorageCheck(p)
       IN  /\ content' = tx.content
           /\ up' = [up EXCEPT ![p] =
                       IF tx.thrown
                       THEN [up[p] EXCEPT !.pc = "cleanupFile",
                                          !.error = "StorageLimitError"]
                       ELSE IF up[p].validatedSlug # NULL
                       THEN [up[p] EXCEPT !.pc = "slug"]
                       ELSE [Finished(r, Respond(200, NOERROR, "success"))
                                EXCEPT !.storagePath = up[p].storagePath,
                                       !.previewPath = up[p].previewPath]]
    /\ UNCHANGED <<now, shortSlug, blobs, calls, serveVars>>

\* await prisma.shortSlug.create({data: {slug, contentId}}): throws on the
\* unique index of slug and on the foreign key to Content
UploadCreateSlug(p) ==
    /\ up[p].pc = "slug"
    /\ LET r    == ValueOf(up[p].req)
           slug == ValueOf(up[p].validatedSlug)
           rejected == \/ \E s \in shortSlug : s.slug = slug
                       \/ ~\E c \in content : c.id = ContentIdOf(p)
       IN  /\ shortSlug' = IF rejected THEN shortSlug
                           ELSE shortSlug \cup {[slug |-> slug, contentId |-> ContentIdOf(p)]}
           /\ up' = [up EXCEPT ![p] =
                       IF rejected
                       THEN [up[p] EXCEPT !.pc = "cleanupFile", !.error = "Error"]
                       ELSE [Finished(r, Respond(200, NOERROR, "success"))
                                EXCEPT !.storagePath = up[p].storagePath,
                                       !.previewPath = up[p].previewPath]]
    /\ UNCHANGED <<now, content, blobs, calls, serveVars>>

\* the response of the catch block
CatchResponse(error) ==
    IF error = "StorageLimitError"
    THEN Respond(400, "Storage limit exceeded", "StorageLimitError")
    ELSE Respond(500, "Upload failed", "exception")

\* a catch block that leaves the written blob where it is
UploadCleanupKeepsFile(p) ==
    /\ up[p].pc = "cleanupFile"
    /\ LET r == ValueOf(up[p].req)
       IN  up' = [up EXCEPT ![p] =
                    IF up[p].previewPath = NULL
                    THEN [Finished(r, CatchResponse(up[p].error))
                             EXCEPT !.storagePath = up[p].storagePath]
                    ELSE [up[p] EXCEPT !.pc = "cleanupPreview"]]
    /\ UNCHANGED <<now, content, shortSlug, blobs, calls, serveVars>>

\* catch: if (storagePath) try { await deleteFile(storagePath) } catch {}
\* followed by deletePreview(null), which returns at once
UploadCleanupFile(p) ==
    /\ up[p].pc = "cleanupFile"
    /\ LET r == ValueOf(up[p].req)
       IN  \E ok \in BOOLEAN :
              /\ calls' = [calls EXCEPT ![p] = @ \cup {Call("deleteFile", up[p].storagePath, ok)}]
              /\ blobs' = IF ok THEN blobs \ {up[p].storagePath} ELSE blobs
              /\ up' = [up EXCEPT ![p] =
                          IF up[p].previewPath = NULL
                          THEN [Finished(r, CatchResponse(up[p].error))
                                   EXCEPT !.storagePath = up[p].storagePath]
                          ELSE [up[p] EXCEPT !.pc = "cleanupPreview"]]
    /\ UNCHANGED <<now, content, shortSlug, serveVars>>

\* catch: await deletePreview(previewPath) with a preview path, then the
\* error response
UploadCleanupPreview(p) ==
    /\ up[p].pc = "cleanupPreview"
    /\ LET r == ValueOf(up[p].req)
       IN  \E ok \in BOOLEAN :
              /\ calls' = [calls EXCEPT ![p] = @ \cup {Call("deleteFile", up[p].previewPath, ok)}]
              /\ blobs' = IF ok THEN blobs \ {up[p].previewPath} ELSE blobs
              /\ up' = [up EXCEPT ![p] =
                          [Finished(r, CatchResponse(up[p].error))
                              EXCEPT !.storagePath = up[p].storagePath,
                                     !.previewPath = up[p].previewPath]]
    /\ UNCHANGED <<now, content, shortSlug, serveVars>>

\* time passes
Tick ==
    /\ now < MaxTicks * HOUR_MS
    /\ now' = now + HOUR_MS
    /\ UNCHANGED <<content, shortSlug, blobs, up, calls, serveVars>>

(***************************************************************************)
(* The store before the requests: each user owns files up to just below   *)
(* the quota of the role, none larger than MAX_FILE_SIZE.  The uploader's  *)
(* files expire after the longest expiry an uploader may ask for.         *)
(***************************************************************************)
SeedName == <<"f",".","p","d","f">>

SeedRecord(owner, k, size, expiresAt) ==
    [id               |-> <<"seed", owner, k>>,
     filename         |-> SeedName,
     originalFilename |-> SeedName,
     storagePath      |-> StoredPath(NULL, <<"seed", owner, k>>, SeedName),
     previewPath      |-> NULL,
     directory        |-> NULL,
     fileSize         |-> size,
     fileExtension    |-> validateExtension(SeedName).extension,
     mimeType         |-> lookup(SeedName),
     expiresAt        |-> expiresAt,
     uploadedById     |-> owner]

\* files of `owner` with sizes adding up to total
SeedFiles(owner, total, expiresAt) ==
    LET full == total \div MAX_FILE_SIZE
        rest == total % MAX_FILE_SIZE
    IN  { SeedRecord(owner, k, MAX_FILE_SIZE, expiresAt) : k \in 1..full }
        \cup (IF rest > 0 THEN {SeedRecord(owner, full + 1, rest, expiresAt)} ELSE {})

SeedContent ==
    SeedFiles("u1", STORAGE_LIMITS("uploader") - 1,
              Some(MAX_EXPIRY_HOURS_UPLOADER * HOUR_MS))
    \cup SeedFiles("a1", STORAGE_LIMITS("admin") - 2, NULL)

\* the caller's IP as the preview route sees it: x-forwarded-for, x-real-ip
\* or 'unknown'
Ips == {"unknown"}

\* no request to the cleanup route yet
IdleSweep ==
    [pc |-> "idle", header |-> NULL, expired |-> <<>>, i |-> 0, deleted |-> 0,
     errors |-> 0, log |-> <<>>, queriedAt |-> NULL, response |-> NULL]

\* no request to a serving route or to admin DELETE yet
IdleClient ==
    [pc |-> "idle", route |-> "", key |-> NULL, ip |-> "", found |-> NULL,
     target |-> NULL, at |-> 0, log |-> <<>>, response |-> NULL]

\* the concurrent requests to PUT /api/admin/content/[id]
Editors == {"e1", "e2"}

\* no request to PUT /api/admin/content/[id] yet
IdleEdit ==
    [pc |-> "idle", req |-> NULL, existing |-> NULL, i |-> 0, slug |-> NULL,
     updated |-> NULL, response |-> NULL]

\* no library function under evaluation
IdlePure ==
    [fn |-> "", input |-> NULL, at |-> 0, result |-> NULL, again |-> NULL]

Init ==
    /\ now = 0
    /\ content = SeedContent
    /\ shortSlug = {}
    /\ blobs = { c.storagePath : c \in SeedContent }
    /\ up = [p \in Procs |-> IdleUp]
    /\ calls = [p \in Procs |-> {}]
    /\ cronSecret = NULL
    /\ sweep = IdleSweep
    /\ client = IdleClient
    /\ rateLimitMap = [ip \in Ips |-> NULL]
    /\ lastCleanup = 0
    /\ edit = [e \in Editors |-> IdleEdit]
    /\ pure = IdlePure
    /\ admitted = [ip \in Ips |-> {}]

Next ==
    \/ \E p \in Procs : UploadStart(p)
    \/ \E p \in Procs : UploadSlugCheck(p)
    \/ \E p \in Procs : UploadSaveFile(p)
    \/ \E p \in Procs : UploadPreview(p)
    \/ \E p \in Procs : UploadCommit(p)
    \/ \E p \in Procs : UploadCreateSlug(p)
    \/ \E p \in Procs : UploadCleanupFile(p)
    \/ \E p \in Procs : UploadCleanupPreview(p)
    \/ Tick

Spec == Init /\ [][Next]_vars

(***************************************************************************)
(* Properties of the upload routes                                         *)
(***************************************************************************)
IsDone(p) == up[p].pc = "done"
ResponseOf(p) == ValueOf(up[p].response)
UserOf(p) == ValueOf(ValueOf(up[p].req).session)
Succeeded(p) == IsDone(p) /\ ResponseOf(p).status = 200
Users == {"u1", "a1"}
RoleOf(userId) == IF userId = "a1" THEN "admin" ELSE "uploader"
OpCalls(p, op) == { c \in calls[p] : c.op = op }

\* C1: for every user and every interleaving of the concurrent uploads, the
\* sum of fileSize over the user's active Content records (expiresAt null or
\* later than now) is at most STORAGE_LIMITS[role]; in particular in the
\* state that follows the commit of a createContentWithStorageCheck
\* transaction.
C1_QuotaHoldsAfterCommit ==
    \A u \in Users : ActiveUsage(u, now) <= STORAGE_LIMITS(RoleOf(u))

\* two uploads have committed for one user, whose usage is now at the quota
C1_Witness ==
    /\ \A p \in Procs : Succeeded(p) /\ UserOf(p).id = "a1"
    /\ ActiveUsage("a1", now) = STORAGE_LIMITS("admin")

\* the two requests of the quota race: the uploader, whose active usage is
\* the quota minus one unit, uploads one unit twice
C2_Race ==
    /\ SumSizes({ c \in SeedContent : c.uploadedById = "u1" })
          = STORAGE_LIMITS("uploader") - 1
    /\ \A p \in Procs : IsDone(p) /\ up[p].req = Some(BaseUpload)

NoStorageFailure == \A p \in Procs : \A c \in calls[p] : c.ok

\* C2 as stated: the race ends with exactly one success and one
\* StorageLimitError (here even granting that no blob write fails).
C2_Original ==
    (C2_Race /\ NoStorageFailure)
    => /\ Cardinality({ p \in Procs : Succeeded(p) }) = 1
       /\ \A p \in Procs :
             ~Succeeded(p) => ResponseOf(p).step = "StorageLimitError"

\* C2 amended: when no blob write fails and none of the user's records has
\* expired meanwhile, the race ends with exactly one success, and the other
\* request is answered 400 with the storage-limit message, by the atomic
\* re-check (StorageLimitError) or by the pre-check when it ran after the
\* winner's commit.
C2_Amended ==
    (C2_Race /\ NoStorageFailure
       /\ \A c \in content : c.uploadedById = "u1" => IsActive(c, now))
    => /\ Cardinality({ p \in Procs : Succeeded(p) }) = 1
       /\ \A p \in Procs :
             ~Succeeded(p) =>
                 /\ ResponseOf(p).status = 400
                 /\ ResponseOf(p).error = "Storage limit exceeded"
                 /\ ResponseOf(p).step \in {"storage", "StorageLimitError"}

\* both requests passed the pre-check, one committed, the other was refused
\* by the transaction
C2_Witness ==
    /\ C2_Race /\ NoStorageFailure
    /\ \E p \in Procs : Succeeded(p)
    /\ \E p \in Procs : ResponseOf(p).step = "StorageLimitError"

\* C3: when the atomic re-check fails after the blob was written, no Content
\* record is created, deleteFile is called with exactly the path saveFile
\* returned, the preview written for the upload is deleted too, and the
\* response is the StorageLimitError message with status 400.
C3_RollbackOnStorageLimitError ==
    \A p \in Procs :
        (IsDone(p) /\ ResponseOf(p).step = "StorageLimitError")
        => /\ ResponseOf(p).status = 400
           /\ ResponseOf(p).error = "Storage limit exceeded"
           /\ ~\E c \in content : c.id = ContentIdOf(p)
           /\ OpCalls(p, "saveFile") # {}
           /\ \A s \in OpCalls(p, "saveFile") \cup OpCalls(p, "savePreview") :
                 \E d \in OpCalls(p, "deleteFile") : d.path = s.path
           /\ \A d \in OpCalls(p, "deleteFile") :
                 \E s \in OpCalls(p, "saveFile") \cup OpCalls(p, "savePreview") :
                    s.ok /\ s.path = d.path

\* a request refused by the transaction after it had written a preview
C3_Witness ==
    \E p \in Procs :
        /\ IsDone(p) /\ ResponseOf(p).step = "StorageLimitError"
        /\ OpCalls(p, "savePreview") # {}

\* C4 as stated: after an upload that reported an error, and whose blob
\* deletions succeeded, no Content record references a deleted blob and no
\* blob written by the request remains.
C4_NoDanglingAfterError ==
    \A p \in Procs :
        (IsDone(p) /\ ResponseOf(p).status >= 400
           /\ \A d \in OpCalls(p, "deleteFile") : d.ok)
        => /\ \A c \in content : c.storagePath \in blobs
           /\ \A s \in OpCalls(p, "saveFile") \cup OpCalls(p, "savePreview") :
                 s.path \notin blobs

ValidationSteps ==
    {"size", "extension", "storage", "expiry", "directory", "slugFormat",
     "slugCollision"}

\* C5: a request that fails a validation step has called neither saveFile
\* nor the preview generator and has created no Content and no ShortSlug
\* record.
C5_ValidationFailureHasNoEffect ==
    \A p \in Procs :
        (IsDone(p) /\ ResponseOf(p).step \in ValidationSteps)
        => /\ calls[p] = {}
           /\ ~\E c \in content : c.id = ContentIdOf(p)
           /\ ~\E s \in shortSlug : s.contentId = ContentIdOf(p)
           /\ \A b \in blobs : b[2] # UuidOf(p)

\* a request refused by the slug collision check, the last validation
C5_Witness ==
    \E p \in Procs : IsDone(p) /\ ResponseOf(p).step = "slugCollision"

(***************************************************************************)
(* The serving routes: GET /api/content/[id], /r/[id], /e/[slug],          *)
(* /api/s/[slug] and /api/preview/[id]                                     *)
(***************************************************************************)
IdRoutes == {"/api/content/[id]", "/r/[id]", "/api/preview/[id]"}
SlugRoutes == {"/e/[slug]", "/api/s/[slug]"}
ServeRoutes == IdRoutes \cup SlugRoutes

\* NextResponse.json({error}, {status}) or new NextResponse(fileBuffer):
\* bytes names the blob whose bytes are the body
ServeResponse(status, error, bytes) ==
    [status |-> status, error |-> error, bytes |-> bytes]

\* prisma.content.findUnique({where: {id}})
findContent(id) ==
    LET S == { c \in content : c.id = id }
    IN  IF S = {} THEN NULL ELSE Some(CHOOSE c \in S : TRUE)

\* prisma.shortSlug.findUnique({where: {slug}, include: {content: true}})
findSlugContent(slug) ==
    LET S == { r \in shortSlug : r.slug = slug }
    IN  IF S = {} THEN NULL ELSE findContent((CHOOSE r \in S : TRUE).contentId)

\* an expiry check that lets an hour pass before it reports expired
IsExpiredAfterAnHour(c, t) ==
    c.expiresAt # NULL /\ ValueOf(c.expiresAt) + HOUR_MS < t

\* content.expiresAt && new Date(content.expiresAt) < new Date()
IsExpiredOnRead(c, t) == c.expiresAt # NULL /\ ValueOf(c.expiresAt) < t

RATE_LIMIT_WINDOW_MS == 60000
RATE_LIMIT_MAX_REQUESTS == 120
CLEANUP_INTERVAL_MS == 5 * 60000

\* a cleanup that empties the table when it is due
cleanupRateLimitsAll(map, last, t) ==
    IF t - last < CLEANUP_INTERVAL_MS
    THEN [map |-> map, lastCleanup |-> last]
    ELSE [map |-> [ip \in DOMAIN map |-> NULL],
          lastCleanup |-> t]

\* cleanupRateLimits() at time t: the map and lastCleanup after the call
cleanupRateLimits(map, last, t) ==
    IF t - last < CLEANUP_INTERVAL_MS
    THEN [map |-> map, lastCleanup |-> last]
    ELSE [map |-> [ip \in DOMAIN map |->
                     IF map[ip] # NULL /\ t > ValueOf(map[ip]).resetAt
                     THEN NULL ELSE map[ip]],
          lastCleanup |-> t]

\* a limiter that refuses the request that reaches the maximum
checkRateLimitBelowMax(ip, map, last, t) ==
    LET cleaned == cleanupRateLimits(map, last, t)
        entry   == cleaned.map[ip]
    IN  IF entry = NULL \/ t > ValueOf(entry).resetAt
        THEN [allowed |-> TRUE,
              map |-> [cleaned.map EXCEPT ![ip] =
                         Some([count |-> 1, resetAt |-> t + RATE_LIMIT_WINDOW_MS])],
              lastCleanup |-> cleaned.lastCleanup]
        ELSE LET count == ValueOf(entry).count + 1
             IN  [allowed |-> count < RATE_LIMIT_MAX_REQUESTS,
                  map |-> [cleaned.map EXCEPT ![ip] =
                             Some([ValueOf(entry) EXCEPT !.count = count])],
                  lastCleanup |-> cleaned.lastCleanup]

\* checkRateLimit(ip) at time t: its result, the map and lastCleanup after it
checkRateLimit(ip, map, last, t) ==
    LET cleaned == cleanupRateLimits(map, last, t)
        entry   == cleaned.map[ip]
    IN  IF entry = NULL \/ t > ValueOf(entry).resetAt
        THEN [allowed |-> TRUE,
              map |-> [cleaned.map EXCEPT ![ip] =
                         Some([count |-> 1, resetAt |-> t + RATE_LIMIT_WINDOW_MS])],
              lastCleanup |-> cleaned.lastCleanup]
        ELSE LET count == ValueOf(entry).count + 1
             IN  [allowed |-> count <= RATE_LIMIT_MAX_REQUESTS,
                  map |-> [cleaned.map EXCEPT ![ip] =
                             Some([ValueOf(entry) EXCEPT !.count = count])],
                  lastCleanup |-> cleaned.lastCleanup]

\* the requests of one window the model follows one by one: its first
\* MaxCounted, and the MaxCounted around RATE_LIMIT_MAX_REQUESTS
MaxCounted == 2

\* the count of ip's entry is one the model follows
WithinCountBound(ip, t) ==
    LET entry == rateLimitMap[ip]
    IN  IF entry = NULL THEN TRUE
        ELSE IF t > ValueOf(entry).resetAt THEN TRUE
        ELSE \/ ValueOf(entry).count < MaxCounted
             \/ /\ ValueOf(entry).count >= RATE_LIMIT_MAX_REQUESTS - 1
                /\ ValueOf(entry).count < RATE_LIMIT_MAX_REQUESTS + MaxCounted

\* a serving handler from the lookup to the expiry check: the response when
\* it returned, or the record it goes on to read
ServeOutcome(route, key, t) ==
    LET found == IF route \in SlugRoutes THEN findSlugContent(key)
                 ELSE findContent(key)
    IN  IF found = NULL
        THEN [returned |-> TRUE, found |-> found,
              response |-> ServeResponse(404, "Content not found", NULL)]
        ELSE IF IsExpiredOnRead(ValueOf(found), t)
        THEN [returned |-> TRUE, found |-> found,
              response |-> ServeResponse(410, "Content has expired", NULL)]
        ELSE IF route = "/api/preview/[id]" /\ ValueOf(found).previewPath = NULL
        THEN [returned |-> TRUE, found |-> found,
              response |-> ServeResponse(404, "No preview available", NULL)]
        ELSE [returned |-> FALSE, found |-> found, response |-> NULL]

(***************************************************************************)
(* The store the serving, deleting and sweeping requests work on: a file   *)
(* that expires within the first hour, one that expires exactly at the     *)
(* first hour, and a permanent one; with and without a preview and a       *)
(* short slug.                                                             *)
(***************************************************************************)
WithPreview(c) ==
    [c EXCEPT !.previewPath = PreviewPathOf(NULL, c.id, c.filename)]

ServeContent ==
    { WithPreview(SeedRecord("u1", 1, 1, Some(HOUR_MS \div 2))),
      SeedRecord("u1", 2, 1, Some(HOUR_MS)),
      WithPreview(SeedRecord("a1", 3, 1, NULL)) }

SlugS2 == <<"s","2">>
SlugMissing == <<"z","z">>

ServeSlugs ==
    { [slug |-> SlugS1Lower, contentId |-> <<"seed", "u1", 1>>],
      [slug |-> SlugS2, contentId |-> <<"seed", "a1", 3>>] }

\* the ids and slugs a request may name: those of the store and a missing one
IdKeys == { c.id : c \in ServeContent } \cup { <<"seed", "u1", 9>> }
SlugKeys == { r.slug : r \in ServeSlugs } \cup { SlugMissing }

\* the history of the requests of one IP that the preview route let through:
\* records [at, n] for n requests at time at, those of the last
\* RATE_LIMIT_WINDOW_MS before t, with n more at time t
Admit(history, t, n) ==
    LET recent == { h \in history : t - h.at < RATE_LIMIT_WINDOW_MS /\ h.at # t }
        before == { h \in history : h.at = t }
        sofar  == IF before = {} THEN 0 ELSE (CHOOSE h \in before : TRUE).n
    IN  recent \cup {[at |-> t, n |-> sofar + n]}

\* GET on a serving route, up to the first read of the file: the rate limit
\* of the preview route, the lookup and the expiry check
ServeStartOf(routes, idKeys, slugKeys, ips) ==
    /\ client.pc \in {"idle", "done"}
    /\ \E route \in routes :
       \E key \in (IF route \in SlugRoutes THEN slugKeys ELSE idKeys) :
       \E ip \in ips :
          LET limited == route = "/api/preview/[id]"
              rl  == checkRateLimit(ip, rateLimitMap, lastCleanup, now)
              out == ServeOutcome(route, key, now)
              req == [IdleClient EXCEPT !.route = route, !.key = key, !.ip = ip,
                                        !.target = out.found, !.at = now]
          IN  /\ limited => WithinCountBound(ip, now)
              /\ rateLimitMap' = IF limited THEN rl.map ELSE rateLimitMap
              /\ lastCleanup' = IF limited THEN rl.lastCleanup ELSE lastCleanup
              /\ admitted' = IF limited /\ rl.allowed
                             THEN [admitted EXCEPT ![ip] = Admit(@, now, 1)]
                             ELSE admitted
              /\ client' =
                   IF limited /\ ~rl.allowed
                   THEN [req EXCEPT !.pc = "done",
                            !.response = Some(ServeResponse(429, "Too many requests", NULL))]
                   ELSE IF out.returned
                   THEN [req EXCEPT !.pc = "done", !.response = Some(out.response)]
                   ELSE [req EXCEPT !.pc = "read", !.found = out.found]
    /\ UNCHANGED <<now, content, shortSlug, blobs, up, calls, edit, pure, cronSecret, sweep>>

ServeStart == ServeStartOf(ServeRoutes, IdKeys, SlugKeys, Ips)

\* the preview requests of a window that the model does not follow one by
\* one: each is counted and let through by checkRateLimit like the ones
\* before it, until the count is one below RATE_LIMIT_MAX_REQUESTS
PreviewBurstOf(ips) ==
    /\ \E ip \in ips :
          /\ rateLimitMap[ip] # NULL
          /\ now <= ValueOf(rateLimitMap[ip]).resetAt
          /\ ValueOf(rateLimitMap[ip]).count >= MaxCounted
          /\ ValueOf(rateLimitMap[ip]).count < RATE_LIMIT_MAX_REQUESTS - 1
          /\ rateLimitMap' =
                [rateLimitMap EXCEPT ![ip] =
                   Some([ValueOf(@) EXCEPT !.count = RATE_LIMIT_MAX_REQUESTS - 1])]
          /\ admitted' =
                [admitted EXCEPT ![ip] =
                   Admit(@, now, RATE_LIMIT_MAX_REQUESTS - 1
                                    - ValueOf(rateLimitMap[ip]).count)]
    /\ UNCHANGED <<now, content, shortSlug, blobs, up, calls, edit, pure, cronSecret, sweep,
                   client, lastCleanup>>

PreviewBurst == PreviewBurstOf(Ips)

\* fs.readFile(getFilePath(path)) and the response with the bytes, or 404
\* when the file is not on disk
ServeRead ==
    /\ client.pc = "read"
    /\ LET c       == ValueOf(client.found)
           preview == client.route = "/api/preview/[id]"
           path    == IF preview THEN c.previewPath ELSE c.storagePath
       IN  client' = [client EXCEPT
                        !.pc = "done",
                        !.response =
                           IF path \in blobs
                           THEN Some(ServeResponse(200, NOERROR, Some(path)))
                           ELSE IF preview
                           THEN Some(ServeResponse(404, "Preview file not found on disk", NULL))
                           ELSE Some(ServeResponse(404, "File not found on disk", NULL))]
    /\ UNCHANGED <<now, content, shortSlug, blobs, up, calls, edit, pure, admitted, cronSecret, sweep,
                   rateLimitMap, lastCleanup>>

(***************************************************************************)
(* DELETE /api/admin/content/[id]                                          *)
(***************************************************************************)
\* one call of the request on the store or on storage: [op, id, path, ok]
LogEntry(op, id, path, ok) == [op |-> op, id |-> id, path |-> path, ok |-> ok]

\* prisma.content.delete({where: {id}}), with ON DELETE CASCADE of ShortSlug
ContentAfterDelete(id) == { c \in content : c.id # id }
SlugsAfterDelete(id) == { r \in shortSlug : r.contentId # id }

\* the session check and the lookup
AdminDeleteStartOf(sessions, ids) ==
    /\ client.pc \in {"idle", "done"}
    /\ \E session \in sessions : \E id \in ids :
          LET req == [IdleClient EXCEPT !.route = "DELETE", !.key = id,
                                        !.target = findContent(id), !.at = now]
          IN  client' =
                IF session = NULL \/ ~isAdmin(ValueOf(session).role)
                THEN [req EXCEPT !.pc = "done",
                         !.response = Some(ServeResponse(403, "Forbidden", NULL))]
                ELSE IF findContent(id) = NULL
                THEN [req EXCEPT !.pc = "done",
                         !.response = Some(ServeResponse(404, "Content not found", NULL))]
                ELSE [req EXCEPT !.pc = "delFile", !.found = findContent(id)]
    /\ UNCHANGED <<now, content, shortSlug, blobs, up, calls, edit, pure, admitted, cronSecret, sweep,
                   rateLimitMap, lastCleanup>>

AdminDeleteStart == AdminDeleteStartOf({NULL, Uploader, Admin}, IdKeys)

\* a handler that swallows the rejection of deleteFile and goes on
AdminDeleteFileBestEffort ==
    /\ client.pc = "delFile"
    /\ LET c == ValueOf(client.found)
       IN  \E ok \in BOOLEAN :
              /\ blobs' = IF ok THEN blobs \ {c.storagePath} ELSE blobs
              /\ client' =
                   [client EXCEPT
                      !.log = Append(@, LogEntry("deleteFile", c.id, c.storagePath, ok)),
                      !.pc = IF c.previewPath = NULL THEN "delRecord" ELSE "delPreview"]
    /\ UNCHANGED <<now, content, shortSlug, up, calls, edit, pure, admitted, cronSecret, sweep,
                   rateLimitMap, lastCleanup>>

\* await deleteFile(content.storagePath): a rejection is not caught and ends
\* the request with the framework's 500; deletePreview(null) returns at once
AdminDeleteFile ==
    /\ client.pc = "delFile"
    /\ LET c == ValueOf(client.found)
       IN  \E ok \in BOOLEAN :
              /\ blobs' = IF ok THEN blobs \ {c.storagePath} ELSE blobs
              /\ client' =
                   [client EXCEPT
                      !.log = Append(@, LogEntry("deleteFile", c.id, c.storagePath, ok)),
                      !.pc = IF ~ok THEN "done"
                             ELSE IF c.previewPath = NULL THEN "delRecord"
                             ELSE "delPreview",
                      !.response = IF ok THEN NULL
                                   ELSE Some(ServeResponse(500, "Internal Server Error", NULL))]
    /\ UNCHANGED <<now, content, shortSlug, up, calls, edit, pure, admitted, cronSecret, sweep,
                   rateLimitMap, lastCleanup>>

\* await deletePreview(content.previewPath): best-effort, never throws
AdminDeletePreview ==
    /\ client.pc = "delPreview"
    /\ LET c == ValueOf(client.found)
       IN  \E ok \in BOOLEAN :
              /\ blobs' = IF ok THEN blobs \ {c.previewPath} ELSE blobs
              /\ client' =
                   [client EXCEPT
                      !.log = Append(@, LogEntry("deletePreview", c.id, c.previewPath, ok)),
                      !.pc = "delRecord"]
    /\ UNCHANGED <<now, content, shortSlug, up, calls, edit, pure, admitted, cronSecret, sweep,
                   rateLimitMap, lastCleanup>>

\* a ShortSlug table whose foreign key does not cascade: the slugs stay
AdminDeleteRecordNoCascade ==
    /\ client.pc = "delRecord"
    /\ LET c  == ValueOf(client.found)
           ok == findContent(c.id) # NULL
       IN  /\ content' = ContentAfterDelete(c.id)
           /\ client' =
                [client EXCEPT
                   !.log = Append(@, LogEntry("content.delete", c.id, c.storagePath, ok)),
                   !.pc = "done",
                   !.response = IF ok THEN Some(ServeResponse(200, NOERROR, NULL))
                                ELSE Some(ServeResponse(500, "Internal Server Error", NULL))]
    /\ UNCHANGED <<now, shortSlug, blobs, up, calls, edit, pure, admitted, cronSecret, sweep, rateLimitMap, lastCleanup>>

\* await prisma.content.delete({where: {id}}): throws when the record is
\* gone; then the response {success: true}
AdminDeleteRecord ==
    /\ client.pc = "delRecord"
    /\ LET c  == ValueOf(client.found)
           ok == findContent(c.id) # NULL
       IN  /\ content' = ContentAfterDelete(c.id)
           /\ shortSlug' = SlugsAfterDelete(c.id)
           /\ client' =
                [client EXCEPT
                   !.log = Append(@, LogEntry("content.delete", c.id, c.storagePath, ok)),
                   !.pc = "done",
                   !.response = IF ok THEN Some(ServeResponse(200, NOERROR, NULL))
                                ELSE Some(ServeResponse(500, "Internal Server Error", NULL))]
    /\ UNCHANGED <<now, blobs, up, calls, edit, pure, admitted, cronSecret, sweep, rateLimitMap, lastCleanup>>

(***************************************************************************)
(* POST /api/cron/cleanup                                                  *)
(***************************************************************************)
SecretK1 == <<"k","1">>
SecretK2 == <<"k","2">>
SecretK  == <<"k">>

\* the values of process.env.CRON_SECRET: unset, empty, set
CronSecrets == {NULL, Some(<<>>), Some(SecretK1)}

\* the values of the x-cron-secret header: absent, empty, equal to the
\* secret, of its length but different, shorter
Headers == {NULL, Some(<<>>), Some(SecretK1), Some(SecretK2), Some(SecretK)}

\* a comparison of the lengths alone
sameLength(a, b) == Len(a) = Len(b)

\* safeCompare(a, b): the byte lengths, then timingSafeEqual
safeCompare(a, b) ==
    IF Len(a) # Len(b) THEN FALSE
    ELSE \A k \in 1..Len(a) : a[k] = b[k]

\* value || ''
OrEmpty(o) == IF o = NULL THEN <<>> ELSE ValueOf(o)

\* !expectedSecret || !cronSecret || !safeCompare(cronSecret, expectedSecret)
SecretRejected(header, env) ==
    \/ OrEmpty(env) = <<>>
    \/ OrEmpty(header) = <<>>
    \/ ~safeCompare(OrEmpty(header), OrEmpty(env))

\* a selection with lte in the place of lt
SelectsExpiredOrDue(c, t) == c.expiresAt # NULL /\ ValueOf(c.expiresAt) <= t

\* where: {expiresAt: {lt: t}}: a null expiresAt matches no comparison
SelectsExpired(c, t) == c.expiresAt # NULL /\ ValueOf(c.expiresAt) < t

\* the rows of a set as a scan without orderBy returns them: in the order
\* of their insertion, which is the order of the serial numbers here
RECURSIVE Rows(_)
Rows(S) ==
    IF S = {} THEN <<>>
    ELSE LET first == CHOOSE c \in S : \A d \in S : c.id[3] <= d.id[3]
         IN  <<first>> \o Rows(S \ {first})

\* the body of the cleanup route's responses; tally is {found, deleted,
\* errors} of a finished sweep
SweepResponse(status, error, tally) ==
    [status |-> status, error |-> error, tally |-> tally]

\* the secret check
SweepStart ==
    /\ sweep.pc \in {"idle", "done"}
    /\ \E header \in Headers :
          sweep' = IF SecretRejected(header, cronSecret)
                   THEN [IdleSweep EXCEPT
                           !.pc = "done", !.header = header,
                           !.response = Some(SweepResponse(403, "Forbidden", NULL))]
                   ELSE [IdleSweep EXCEPT !.pc = "query", !.header = header]
    /\ UNCHANGED <<now, content, shortSlug, blobs, up, calls, edit, pure, admitted, cronSecret, client,
                   rateLimitMap, lastCleanup>>

\* a loop that ends at the first item that failed
SweepStopsAtError(s) ==
    IF s.i < Len(s.expired) /\ s.errors = 0
    THEN [s EXCEPT !.i = @ + 1, !.pc = "file"]
    ELSE [s EXCEPT !.pc = "done",
                   !.response = Some(SweepResponse(200, NOERROR,
                                   Some([found   |-> Len(s.expired),
                                         deleted |-> s.deleted,
                                         errors  |-> s.errors])))]

\* the sweep once item i is done with: the next item, or the response
SweepNext(s) ==
    IF s.i < Len(s.expired)
    THEN [s EXCEPT !.i = @ + 1, !.pc = "file"]
    ELSE [s EXCEPT !.pc = "done",
                   !.response = Some(SweepResponse(200, NOERROR,
                                   Some([found   |-> Len(s.expired),
                                         deleted |-> s.deleted,
                                         errors  |-> s.errors])))]

\* await prisma.content.findMany({where: {expiresAt: {lt: new Date()}}}); a
\* rejection is caught by the outer catch and answered 500
SweepQuery ==
    /\ sweep.pc = "query"
    /\ \/ LET expired == Rows({ c \in content : SelectsExpired(c, now) })
          IN  sweep' = SweepNext([sweep EXCEPT !.expired = expired,
                                               !.queriedAt = Some(now)])
       \/ sweep' = [sweep EXCEPT
                      !.pc = "done",
                      !.response = Some(SweepResponse(500, "Cleanup failed", NULL))]
    /\ UNCHANGED <<now, content, shortSlug, blobs, up, calls, edit, pure, admitted, cronSecret, client,
                   rateLimitMap, lastCleanup>>

\* a loop that goes on to the record of an item whose file was not deleted
SweepDeleteFileThenRecord ==
    /\ sweep.pc = "file"
    /\ LET item == sweep.expired[sweep.i]
       IN  \E ok \in BOOLEAN :
              LET logged == [sweep EXCEPT !.log =
                               Append(@, LogEntry("deleteFile", item.id, item.storagePath, ok))]
              IN  /\ blobs' = IF ok THEN blobs \ {item.storagePath} ELSE blobs
                  /\ sweep' =
                       IF ~ok THEN [logged EXCEPT !.errors = @ + 1, !.pc = "record"]
                       ELSE [logged EXCEPT !.pc = IF item.previewPath = NULL
                                                  THEN "record" ELSE "preview"]
    /\ UNCHANGED <<now, content, shortSlug, up, calls, edit, pure, admitted, cronSecret, client,
                   rateLimitMap, lastCleanup>>

\* await deleteFile(item.storagePath); a rejection is caught: errors++
SweepDeleteFile ==
    /\ sweep.pc = "file"
    /\ LET item == sweep.expired[sweep.i]
       IN  \E ok \in BOOLEAN :
              LET logged == [sweep EXCEPT !.log =
                               Append(@, LogEntry("deleteFile", item.id, item.storagePath, ok))]
              IN  /\ blobs' = IF ok THEN blobs \ {item.storagePath} ELSE blobs
                  /\ sweep' =
                       IF ~ok THEN SweepNext([logged EXCEPT !.errors = @ + 1])
                       ELSE [logged EXCEPT !.pc = IF item.previewPath = NULL
                                                  THEN "record" ELSE "preview"]
    /\ UNCHANGED <<now, content, shortSlug, up, calls, edit, pure, admitted, cronSecret, client,
                   rateLimitMap, lastCleanup>>

\* await deletePreview(item.previewPath): best-effort, never throws
SweepDeletePreview ==
    /\ sweep.pc = "preview"
    /\ LET item == sweep.expired[sweep.i]
       IN  \E ok \in BOOLEAN :
              /\ blobs' = IF ok THEN blobs \ {item.previewPath} ELSE blobs
              /\ sweep' = [sweep EXCEPT
                             !.log = Append(@, LogEntry("deletePreview", item.id,
                                                        item.previewPath, ok)),
                             !.pc = "record"]
    /\ UNCHANGED <<now, content, shortSlug, up, calls, edit, pure, admitted, cronSecret, client,
                   rateLimitMap, lastCleanup>>

\* await prisma.content.delete({where: {id: item.id}}); deleted++, or
\* errors++ when it throws because the record is gone
SweepDeleteRecord ==
    /\ sweep.pc = "record"
    /\ LET item   == sweep.expired[sweep.i]
           ok     == findContent(item.id) # NULL
           logged == [sweep EXCEPT !.log =
                        Append(@, LogEntry("content.delete", item.id, item.storagePath, ok))]
       IN  /\ content' = ContentAfterDelete(item.id)
           /\ shortSlug' = SlugsAfterDelete(item.id)
           /\ sweep' = IF ok THEN SweepNext([logged EXCEPT !.deleted = @ + 1])
                       ELSE SweepNext([logged EXCEPT !.errors = @ + 1])
    /\ UNCHANGED <<now, blobs, up, calls, edit, pure, admitted, cronSecret, client, rateLimitMap, lastCleanup>>

\* the store with a client of the serving routes and the cleanup requests
InitServe ==
    /\ now = 0
    /\ content = ServeContent
    /\ shortSlug = ServeSlugs
    /\ blobs = { c.storagePath : c \in ServeContent }
               \cup { c.previewPath : c \in { d \in ServeContent : d.previewPath # NULL } }
    /\ up = [p \in Procs |-> IdleUp]
    /\ calls = [p \in Procs |-> {}]
    /\ cronSecret = Some(SecretK1)
    /\ sweep = IdleSweep
    /\ client = IdleClient
    /\ rateLimitMap \in
          { [ip \in Ips |-> NULL],
            [ip \in Ips |-> Some([count   |-> RATE_LIMIT_MAX_REQUESTS - 1,
                                  resetAt |-> RATE_LIMIT_WINDOW_MS])] }
    /\ lastCleanup = 0
    /\ edit = [e \in Editors |-> IdleEdit]
    /\ pure = IdlePure
    /\ admitted = [ip \in Ips |->
                      IF rateLimitMap[ip] = NULL THEN {}
                      ELSE {[at |-> 0, n |-> ValueOf(rateLimitMap[ip]).count]}]

NextServe ==
    \/ ServeStart
    \/ PreviewBurst
    \/ ServeRead
    \/ SweepStart
    \/ SweepQuery
    \/ SweepDeleteFile
    \/ SweepDeletePreview
    \/ SweepDeleteRecord
    \/ Tick

SpecServe == InitServe /\ [][NextServe]_vars

\* the store with an admin deleting content and the cleanup requests, for
\* every value of CRON_SECRET
InitSweep ==
    /\ now = 0
    /\ content = ServeContent
    /\ shortSlug = ServeSlugs
    /\ blobs = { c.storagePath : c \in ServeContent }
               \cup { c.previewPath : c \in { d \in ServeContent : d.previewPath # NULL } }
    /\ up = [p \in Procs |-> IdleUp]
    /\ calls = [p \in Procs |-> {}]
    /\ cronSecret \in CronSecrets
    /\ sweep = IdleSweep
    /\ client = IdleClient
    /\ rateLimitMap = [ip \in Ips |-> NULL]
    /\ lastCleanup = 0
    /\ edit = [e \in Editors |-> IdleEdit]
    /\ pure = IdlePure
    /\ admitted = [ip \in Ips |-> {}]

NextSweep ==
    \/ AdminDeleteStart
    \/ AdminDeleteFile
    \/ AdminDeletePreview
    \/ AdminDeleteRecord
    \/ SweepStart
    \/ SweepQuery
    \/ SweepDeleteFile
    \/ SweepDeletePreview
    \/ SweepDeleteRecord
    \/ Tick

SpecSweep == InitSweep /\ [][NextSweep]_vars

(***************************************************************************)
(* Properties of the serving routes                                        *)
(***************************************************************************)
ServeDone == client.pc = "done" /\ client.route \in ServeRoutes
ServeAnswer == ValueOf(client.response)

\* the record the request named was in the store, with expiresAt earlier
\* than the time of the request
TargetExpired ==
    /\ client.target # NULL
    /\ ValueOf(client.target).expiresAt # NULL
    /\ ValueOf(ValueOf(client.target).expiresAt) < client.at

TargetPermanent ==
    client.target # NULL /\ ValueOf(client.target).expiresAt = NULL

\* what C6 asks of a finished request
ServeAnswersByExpiry ==
    /\ TargetExpired =>
          /\ ServeAnswer.status = 410
          /\ ServeAnswer.error = "Content has expired"
          /\ ServeAnswer.bytes = NULL
    /\ client.target = NULL =>
          /\ ServeAnswer.status = 404
          /\ ServeAnswer.error = "Content not found"
    /\ TargetPermanent => ServeAnswer.status # 410

\* C6 as stated: every serving handler answers 410 'Content has expired'
\* without file bytes for a record whose expiresAt is earlier than now,
\* whether or not a sweep has run; 404 when the record or slug does not
\* exist; and never expired for a record with expiresAt = null.
C6_Original == ServeDone => ServeAnswersByExpiry

\* C6 amended: the same, for every request that GET /api/preview/[id] has
\* not refused with 429 'Too many requests'; the preview route refuses a
\* request, before it looks the record up, only when the caller's IP has
\* made more than RATE_LIMIT_MAX_REQUESTS requests in the current window.
C6_Amended ==
    ServeDone =>
       IF ServeAnswer.status = 429
       THEN /\ client.route = "/api/preview/[id]"
            /\ ServeAnswer.bytes = NULL
            /\ \E ip \in Ips :
                  /\ rateLimitMap[ip] # NULL
                  /\ ValueOf(rateLimitMap[ip]).count > RATE_LIMIT_MAX_REQUESTS
       ELSE ServeAnswersByExpiry

\* an expired file is refused through its slug after a sweep has run and
\* failed to delete it
C6_Witness ==
    /\ ServeDone /\ client.route = "/e/[slug]"
    /\ TargetExpired /\ ServeAnswer.status = 410
    /\ sweep.pc = "done" /\ sweep.errors > 0
    /\ sweep.queriedAt # NULL /\ ValueOf(sweep.queriedAt) < client.at

(***************************************************************************)
(* Properties of the cleanup sweep and of admin DELETE                    *)
(***************************************************************************)
SweepAnswer == ValueOf(sweep.response)
SweepTally == ValueOf(SweepAnswer.tally)
SweepFinished == sweep.pc = "done" /\ SweepAnswer.status = 200

\* the entries of a log with the given operation on the given record
EntriesOf(log, op, id) ==
    { j \in DOMAIN log : log[j].op = op /\ log[j].id = id }

\* the found items on which the sweep met a failure that threw
FailedItems ==
    { k \in DOMAIN sweep.expired :
         \E j \in DOMAIN sweep.log :
            /\ sweep.log[j].id = sweep.expired[k].id
            /\ sweep.log[j].op \in {"deleteFile", "content.delete"}
            /\ ~sweep.log[j].ok }

\* the found items whose record the sweep deleted
DeletedItems ==
    { k \in DOMAIN sweep.expired :
         \E j \in EntriesOf(sweep.log, "content.delete", sweep.expired[k].id) :
            sweep.log[j].ok }

C7_Tally ==
    SweepFinished =>
       /\ \A k \in DOMAIN sweep.expired :
             Cardinality(EntriesOf(sweep.log, "deleteFile", sweep.expired[k].id)) = 1
       /\ \A j \in DOMAIN sweep.log :
             \E k \in DOMAIN sweep.expired : sweep.expired[k].id = sweep.log[j].id
       /\ SweepTally.found = Len(sweep.expired)
       /\ SweepTally.found = SweepTally.deleted + SweepTally.errors
       /\ SweepTally.errors = Cardinality(FailedItems)
       /\ SweepTally.deleted = Cardinality(DeletedItems)
       /\ \A k \in DOMAIN sweep.expired :
             (\E j \in EntriesOf(sweep.log, "deleteFile", sweep.expired[k].id) :
                 ~sweep.log[j].ok)
             => EntriesOf(sweep.log, "content.delete", sweep.expired[k].id) = {}

\* a step of the sweep removes a record only when it counts the item as
\* deleted, and then the record of that item alone
C7_Step ==
    (sweep' # sweep /\ content' # content)
    => /\ sweep.pc = "record"
       /\ sweep'.deleted = sweep.deleted + 1
       /\ sweep'.errors = sweep.errors
       /\ content' = { c \in content : c.id # sweep.expired[sweep.i].id }

C8_Selection ==
    sweep.queriedAt # NULL =>
       \A k \in DOMAIN sweep.expired :
          /\ sweep.expired[k].expiresAt # NULL
          /\ ValueOf(sweep.expired[k].expiresAt) < ValueOf(sweep.queriedAt)

\* the record is permanent, or not yet expired at time t
NotExpiredAt(c, t) == c.expiresAt = NULL \/ ValueOf(c.expiresAt) >= t

\* a step of the sweep leaves every record that is permanent or not expired
\* at the time of the query where it is, with its blob, its preview and its
\* slugs, and adds nothing to the stores
C8_Step ==
    sweep' # sweep =>
       /\ content' \subseteq content
       /\ blobs' \subseteq blobs
       /\ shortSlug' \subseteq shortSlug
       /\ \A c \in content :
             NotExpiredAt(c, IF sweep'.queriedAt = NULL THEN now
                             ELSE ValueOf(sweep'.queriedAt))
             => /\ c \in content'
                /\ c.storagePath \in blobs => c.storagePath \in blobs'
                /\ c.previewPath \in blobs => c.previewPath \in blobs'
                /\ \A r \in shortSlug : r.contentId = c.id => r \in shortSlug'

\* C8: a sweep selects only records whose expiresAt is non-null and strictly
\* earlier than the time of the query; the records with expiresAt = null or
\* expiresAt >= now, their blobs, previews and slugs are left unchanged by
\* the sweep.
C8_SweepSelectsExpiredOnly == []C8_Selection /\ [][C8_Step]_vars

\* a sweep at the very time a file expires: it deleted the file that had
\* expired before and left the one expiring now, and the permanent one
C8_Witness ==
    /\ SweepFinished
    /\ sweep.queriedAt = Some(HOUR_MS)
    /\ SweepTally = [found |-> 1, deleted |-> 1, errors |-> 0]
    /\ \E c \in content : c.expiresAt = Some(HOUR_MS) /\ c.storagePath \in blobs
    /\ \E c \in content : c.expiresAt = NULL /\ c.previewPath \in blobs

\* the record with the given id has a preview
HasPreview(id) == \E c \in ServeContent : c.id = id /\ c.previewPath # NULL

\* the calls of one request are in the order blob, preview, record for every
\* item, and nothing follows a failed blob delete of an item
OrderedLog(log) ==
    \A j \in DOMAIN log :
       /\ log[j].op = "deletePreview" =>
             /\ j > 1
             /\ log[j-1] = LogEntry("deleteFile", log[j].id, log[j-1].path, TRUE)
       /\ log[j].op = "content.delete" =>
             /\ j > 1
             /\ log[j-1].id = log[j].id
             /\ IF HasPreview(log[j].id)
                THEN /\ log[j-1].op = "deletePreview"
                     /\ j > 2
                     /\ log[j-2] = LogEntry("deleteFile", log[j].id, log[j-2].path, TRUE)
                ELSE log[j-1] = LogEntry("deleteFile", log[j].id, log[j-1].path, TRUE)
       /\ (log[j].op = "deleteFile" /\ ~log[j].ok) =>
             \A k \in DOMAIN log : k > j => log[k].id # log[j].id

\* the step is a primary blob delete that failed
FailedBlobDelete(log, log2) ==
    /\ Len(log2) = Len(log) + 1
    /\ log2[Len(log2)].op = "deleteFile"
    /\ ~log2[Len(log2)].ok

\* a failed blob delete leaves the record, the preview and the slugs in place
C9_Step ==
    (FailedBlobDelete(sweep.log, sweep'.log) \/ FailedBlobDelete(client.log, client'.log))
    => UNCHANGED <<content, blobs, shortSlug>>

\* C9: in the sweep and in admin DELETE the steps for one item run in the
\* order primary blob delete, preview delete, record delete; the record is
\* deleted only after the primary blob delete returned without error, and a
\* failed blob delete leaves the record and the preview in place.
C9_DeleteOrder ==
    [](OrderedLog(sweep.log) /\ OrderedLog(client.log)) /\ [][C9_Step]_vars

\* the sweep has deleted blob, preview and record of an item, and an admin
\* DELETE whose blob delete threw has ended with the record in place
C9_Witness ==
    /\ \E j \in DOMAIN sweep.log :
          /\ sweep.log[j].op = "content.delete" /\ sweep.log[j].ok
          /\ HasPreview(sweep.log[j].id)
    /\ client.pc = "done" /\ client.route = "DELETE"
    /\ Len(client.log) = 1 /\ ~client.log[1].ok
    /\ \E c \in content : c.id = client.key /\ c.previewPath \in blobs

\* the header is accepted: CRON_SECRET is set and non-empty and the header
\* is equal to it
SecretAccepted ==
    /\ cronSecret # NULL
    /\ ValueOf(cronSecret) # <<>>
    /\ sweep.header = cronSecret

C10_Forbidden ==
    sweep.pc # "idle" =>
       IF SecretAccepted
       THEN sweep.pc = "done" => SweepAnswer.status # 403
       ELSE /\ sweep.pc = "done"
            /\ SweepAnswer = SweepResponse(403, "Forbidden", NULL)
            /\ sweep.queriedAt = NULL
            /\ sweep.expired = <<>>
            /\ sweep.log = <<>>

\* the step that answers 403 changes nothing in the stores
C10_Step ==
    (sweep' # sweep /\ sweep'.response = Some(SweepResponse(403, "Forbidden", NULL)))
    => UNCHANGED <<content, blobs, shortSlug>>

\* C10: the cleanup route answers 403 Forbidden, with no store query, no
\* blob deletion and no record deletion, whenever the x-cron-secret header is
\* absent, empty or different from CRON_SECRET, and whenever CRON_SECRET is
\* unset or empty; only an equal non-empty secret runs the sweep.
C10_ForbiddenWithoutSecret == []C10_Forbidden /\ [][C10_Step]_vars

\* a header of the secret's length that differs from it was refused while
\* expired files were waiting
C10_Witness ==
    /\ cronSecret = Some(SecretK1)
    /\ sweep.header = Some(SecretK2)
    /\ sweep.pc = "done" /\ SweepAnswer.status = 403
    /\ \E c \in content : c.expiresAt # NULL /\ ValueOf(c.expiresAt) < now

(***************************************************************************)
(* PUT /api/admin/content/[id]                                             *)
(***************************************************************************)
\* the body of a request: filename and expiresAt are NULL when undefined;
\* expiresAt is Some(NULL) for the JSON null and Some(Some(ms)) for a date
BasePut ==
    [session |-> Admin, id |-> <<"seed", "u1", 2>>, filename |-> NULL,
     expiresAt |-> NULL, addSlugs |-> <<>>, removeSlugs |-> <<>>]

PutRequests ==
    { [BasePut EXCEPT !.addSlugs = <<SlugS1>>],
      [BasePut EXCEPT !.id = <<"seed", "a1", 3>>, !.addSlugs = <<SlugS1Lower>>],
      [BasePut EXCEPT !.addSlugs = <<SlugS2>>],
      [BasePut EXCEPT !.id = <<"seed", "a1", 3>>, !.addSlugs = <<SlugS2>>],
      [BasePut EXCEPT !.id = <<"seed", "a1", 3>>, !.removeSlugs = <<SlugS2>>],
      [BasePut EXCEPT !.filename = Some(CustomName), !.expiresAt = Some(NULL),
                      !.addSlugs = <<SlugS1, SlugBad>>],
      [BasePut EXCEPT !.session = Uploader, !.addSlugs = <<SlugS1>>],
      [BasePut EXCEPT !.session = NULL],
      [BasePut EXCEPT !.id = <<"seed", "u1", 9>>] }

\* the record after prisma.content.update({where: {id}, data: updateData})
\* with updateData.filename = sanitizeFilename(filename) and
\* updateData.expiresAt = expiresAt ? new Date(expiresAt) : null
UpdateData(r, c) ==
    [c EXCEPT
       !.filename  = IF r.filename = NULL THEN @
                     ELSE sanitizeFilename(ValueOf(r.filename)),
       !.expiresAt = IF r.expiresAt = NULL THEN @
                     ELSE IF ValueOf(r.expiresAt) = NULL \/ ValueOf(r.expiresAt) = Some(0)
                     THEN NULL
                     ELSE ValueOf(r.expiresAt)]

\* the loop over addSlugs up to its next awaited call: the end of the loop,
\* or validateShortSlug(rawSlug) and the 400 response, or the collision check
EditAdvance(st, i) ==
    LET r == ValueOf(st.req)
    IN  IF i > Len(r.addSlugs)
        THEN [st EXCEPT !.pc = IF Len(r.removeSlugs) > 0 THEN "remove" ELSE "final",
                        !.i = i, !.slug = NULL]
        ELSE LET slugResult == validateShortSlug(r.addSlugs[i])
             IN  IF ~slugResult.valid
                 THEN [st EXCEPT !.pc = "done", !.i = i, !.slug = NULL,
                                 !.response = Respond(400, slugResult.error, "slugFormat")]
                 ELSE [st EXCEPT !.pc = "collision", !.i = i,
                                 !.slug = Some(slugResult.slug)]

\* the session check and prisma.content.findUnique({where: {id}})
EditStartOf(e, requests) ==
    /\ edit[e].pc = "idle"
    /\ \E r \in requests :
          LET st == [IdleEdit EXCEPT !.req = Some(r)]
          IN  edit' = [edit EXCEPT ![e] =
                IF r.session = NULL \/ ~isAdmin(ValueOf(r.session).role)
                THEN [st EXCEPT !.pc = "done",
                                !.response = Respond(403, "Forbidden", "auth")]
                ELSE IF findContent(r.id) = NULL
                THEN [st EXCEPT !.pc = "done",
                                !.response = Respond(404, "Content not found", "notFound")]
                ELSE [st EXCEPT !.pc = "update", !.existing = findContent(r.id)]]
    /\ UNCHANGED <<now, content, shortSlug, blobs, up, calls, cronSecret, sweep,
                   client, rateLimitMap, lastCleanup, pure, admitted>>

EditStart(e) == EditStartOf(e, PutRequests)

\* await prisma.content.update(...): throws when the record is gone; then
\* the loop over addSlugs begins
EditUpdate(e) ==
    /\ edit[e].pc = "update"
    /\ LET r     == ValueOf(edit[e].req)
           found == findContent(r.id)
       IN  IF found = NULL
           THEN /\ content' = content
                /\ edit' = [edit EXCEPT ![e].pc = "done",
                              ![e].response =
                                 Respond(500, "Failed to update content", "exception")]
           ELSE /\ content' = (content \ {ValueOf(found)})
                                 \cup {UpdateData(r, ValueOf(found))}
                /\ edit' = [edit EXCEPT ![e] = EditAdvance(edit[e], 1)]
    /\ UNCHANGED <<now, shortSlug, blobs, up, calls, cronSecret, sweep,
                   client, rateLimitMap, lastCleanup, pure, admitted>>

\* await checkSlugCollision(slugResult.slug, id) and the 409 response
EditSlugCheck(e) ==
    /\ edit[e].pc = "collision"
    /\ LET r == ValueOf(edit[e].req)
       IN  edit' = [edit EXCEPT ![e] =
                IF checkSlugCollision(ValueOf(edit[e].slug), Some(r.id))
                THEN [edit[e] EXCEPT !.pc = "done",
                        !.response = Respond(409, "Short slug is already in use",
                                             "slugCollision")]
                ELSE [edit[e] EXCEPT !.pc = "create"]]
    /\ UNCHANGED <<now, content, shortSlug, blobs, up, calls, cronSecret, sweep,
                   client, rateLimitMap, lastCleanup, pure, admitted>>

\* a table without the unique index of slug
EditCreateSlugNoIndex(e) ==
    /\ edit[e].pc = "create"
    /\ LET r    == ValueOf(edit[e].req)
           slug == ValueOf(edit[e].slug)
       IN  /\ shortSlug' = shortSlug \cup {[slug |-> slug, contentId |-> r.id]}
           /\ edit' = [edit EXCEPT ![e] = EditAdvance(edit[e], edit[e].i + 1)]
    /\ UNCHANGED <<now, content, blobs, up, calls, cronSecret, sweep,
                   client, rateLimitMap, lastCleanup, pure, admitted>>

\* await prisma.shortSlug.create({data: {slug, contentId: id}}): throws on
\* the unique index of slug and on the foreign key to Content, and the catch
\* block answers 500; otherwise the loop goes on
EditCreateSlug(e) ==
    /\ edit[e].pc = "create"
    /\ LET r    == ValueOf(edit[e].req)
           slug == ValueOf(edit[e].slug)
           rejected == \/ \E s \in shortSlug : s.slug = slug
                       \/ ~\E c \in content : c.id = r.id
       IN  /\ shortSlug' = IF rejected THEN shortSlug
                           ELSE shortSlug \cup {[slug |-> slug, contentId |-> r.id]}
           /\ edit' = [edit EXCEPT ![e] =
                IF rejected
                THEN [edit[e] EXCEPT !.pc = "done",
                        !.response =
                           Respond(500, "Failed to update content", "exception")]
                ELSE EditAdvance(edit[e], edit[e].i + 1)]
    /\ UNCHANGED <<now, content, blobs, up, calls, cronSecret, sweep,
                   client, rateLimitMap, lastCleanup, pure, admitted>>

\* await prisma.shortSlug.deleteMany({where: {contentId: id, slug: {in: removeSlugs}}})
EditRemoveSlugs(e) ==
    /\ edit[e].pc = "remove"
    /\ LET r == ValueOf(edit[e].req)
       IN  shortSlug' = { s \in shortSlug :
                            ~(s.contentId = r.id /\ s.slug \in Range(r.removeSlugs)) }
    /\ edit' = [edit EXCEPT ![e].pc = "final"]
    /\ UNCHANGED <<now, content, blobs, up, calls, cronSecret, sweep,
                   client, rateLimitMap, lastCleanup, pure, admitted>>

\* the final findUnique with the slugs of the item, and the response
EditFinish(e) ==
    /\ edit[e].pc = "final"
    /\ LET r == ValueOf(edit[e].req)
       IN  edit' = [edit EXCEPT
                ![e].pc = "done",
                ![e].updated =
                   IF findContent(r.id) = NULL THEN NULL
                   ELSE Some([content |-> ValueOf(findContent(r.id)),
                              shortSlugs |-> { s.slug : s \in { x \in shortSlug :
                                                                  x.contentId = r.id } }]),
                ![e].response = Respond(200, NOERROR, "success")]
    /\ UNCHANGED <<now, content, shortSlug, blobs, up, calls, cronSecret, sweep,
                   client, rateLimitMap, lastCleanup, pure, admitted>>

(***************************************************************************)
(* Admin uploads, admin edits and an admin DELETE on one store: a slug     *)
(* bound to the permanent file, the slug the uploads ask for still free.   *)
(***************************************************************************)
\* the admin uploads that ask for a short slug
SlugRequests == { r \in GoodRequests : r.route = "admin" }

EditSlugs == { [slug |-> SlugS2, contentId |-> <<"seed", "a1", 3>>] }

\* the item an admin deletes meanwhile: the one that carries a slug
EditTargets == { r.contentId : r \in EditSlugs }

InitEdit ==
    /\ now = 0
    /\ content = ServeContent
    /\ shortSlug = EditSlugs
    /\ blobs = { c.storagePath : c \in ServeContent }
                  \cup { c.previewPath : c \in { x \in ServeContent : x.previewPath # NULL } }
    /\ up = [p \in Procs |-> IdleUp]
    /\ calls = [p \in Procs |-> {}]
    /\ cronSecret = NULL
    /\ sweep = IdleSweep
    /\ client = IdleClient
    /\ rateLimitMap = [ip \in Ips |-> NULL]
    /\ lastCleanup = 0
    /\ edit = [e \in Editors |-> IdleEdit]
    /\ pure = IdlePure
    /\ admitted = [ip \in Ips |-> {}]

NextEdit ==
    \/ UploadStartOf("p1", SlugRequests)
    \/ UploadSlugCheck("p1")
    \/ UploadSaveFile("p1")
    \/ UploadPreview("p1")
    \/ UploadCommit("p1")
    \/ UploadCreateSlug("p1")
    \/ UploadCleanupFile("p1")
    \/ UploadCleanupPreview("p1")
    \/ \E e \in Editors : EditStart(e)
    \/ \E e \in Editors : EditUpdate(e)
    \/ \E e \in Editors : EditSlugCheck(e)
    \/ \E e \in Editors : EditCreateSlug(e)
    \/ \E e \in Editors : EditRemoveSlugs(e)
    \/ \E e \in Editors : EditFinish(e)
    \/ AdminDeleteStartOf({Admin}, EditTargets)
    \/ AdminDeleteFile
    \/ AdminDeletePreview
    \/ AdminDeleteRecord

SpecEdit == InitEdit /\ [][NextEdit]_vars


(***************************************************************************)
(* Properties of short slugs                                               *)
(***************************************************************************)
\* the content ids a slug is bound to
SlugBoundTo(slug) == { s.contentId : s \in { x \in shortSlug : x.slug = slug } }

EditFailed(st) ==
    st.pc = "done" /\ ValueOf(st.response).status >= 400

\* an admin upload whose collision check finds the slug bound answers 409
C11_UploadStep ==
    \A p \in Procs :
       (/\ up[p].pc = "slugcheck"
        /\ up'[p].pc # "slugcheck"
        /\ SlugBoundTo(ValueOf(up[p].validatedSlug)) # {})
       => /\ up'[p].pc = "done"
          /\ ValueOf(up'[p].response).status = 409

\* an admin edit whose collision check finds the slug bound to another item
\* answers 409
C11_EditStep ==
    \A e \in Editors :
       (/\ edit[e].pc = "collision"
        /\ edit'[e].pc # "collision"
        /\ \E id \in SlugBoundTo(ValueOf(edit[e].slug)) : id # ValueOf(edit[e].req).id)
       => /\ edit'[e].pc = "done"
          /\ ValueOf(edit'[e].response).status = 409

\* an admin edit that adds a slug bound to its own item does not fail on it
C11_ResubmitStep ==
    \A e \in Editors :
       (/\ edit[e].pc \in {"collision", "create"}
        /\ edit'[e] # edit[e]
        /\ SlugBoundTo(ValueOf(edit[e].slug)) = {ValueOf(edit[e].req).id})
       => ~EditFailed(edit'[e])

\* C11: a slug bound to a different Content is refused with 409 by the admin
\* upload and by the admin edit (PUT addSlugs), and an admin edit that
\* re-submits a slug bound to the same content id succeeds.
C11_SlugTakenOrResubmitted ==
    [][C11_UploadStep /\ C11_EditStep /\ C11_ResubmitStep]_vars

\* the part of C11 about slugs bound to a different Content
C11_TakenByOther == [][C11_UploadStep /\ C11_EditStep]_vars


\* the unique index of ShortSlug.slug and the foreign key to Content
SlugsUniqueAndBound ==
    /\ \A s, t \in shortSlug : s.slug = t.slug => s = t
    /\ \A s \in shortSlug : \E c \in content : c.id = s.contentId

\* a step creates a ShortSlug record only for a slug no record carries
C12_Step ==
    \A s \in shortSlug' \ shortSlug : SlugBoundTo(s.slug) = {}

\* C12: in every reachable state no two ShortSlug records carry the same
\* slug and every ShortSlug record references an existing Content, in every
\* interleaving of admin uploads, admin edits and a DELETE that ask for the
\* same slug; of the requests that race for a free slug at most one creates
\* the record.
C12_SlugsUnique == []SlugsUniqueAndBound /\ [][C12_Step]_vars

\* an upload and an edit raced for the free slug s1: both passed the
\* collision check, the upload created the record and the edit's create
\* was rejected
C12_Witness ==
    /\ edit["e2"].pc = "idle" /\ client.pc = "idle"
    /\ Succeeded("p1")
    /\ [slug |-> SlugS1Lower, contentId |-> ContentIdOf("p1")] \in shortSlug
    /\ edit["e1"].pc = "done"
    /\ edit["e1"].slug = Some(SlugS1Lower)
    /\ ValueOf(edit["e1"].response).status = 500
    /\ findContent(ValueOf(edit["e1"].req).id) # NULL


(***************************************************************************)
(* The library functions evaluated on their own: an input is drawn, the    *)
(* function is applied to it.                                              *)
(***************************************************************************)
\* the roles validateExpiry is called with, and one it does not know
ExpiryRoles == {"admin", "uploader", "guest", "other"}

\* the expiry options: absent, 'off', and strings parseFloat reads as not a
\* number, as zero or negative, as less than five minutes, as hours up to
\* and beyond the ceiling of 168
ExpiryOptions ==
    { NULL, Some(OFF), Some(<<"O","F","F">>), Some(<<>>), Some(<<"a","b","c">>),
      Some(<<"0">>), Some(<<"-","1">>), Some(<<"0",".","0","5">>),
      Some(<<"0",".","0","8","3">>), Some(<<"0",".","0","8","4">>),
      Some(<<".","5">>), Some(<<"1">>), Some(<<" ","2","4">>), Some(<<"+","2">>),
      Some(<<"5","a","b","c">>), Some(<<"1","6","8">>),
      Some(<<"1","6","8",".","0","0","1">>), Some(<<"1","6","9">>),
      Some(<<"2","0","0">>) }

ExpiryInputs ==
    { [role |-> role, expiryOption |-> o] : role \in ExpiryRoles, o \in ExpiryOptions }

PureStart(fn, inputs) ==
    { [IdlePure EXCEPT !.fn = fn, !.input = Some(i)] : i \in inputs }

\* validateExpiry(role, expiryOption) at the current time
ApplyValidateExpiry ==
    /\ pure.fn = "validateExpiry" /\ pure.result = NULL
    /\ LET i == ValueOf(pure.input)
       IN  pure' = [pure EXCEPT
                      !.at = now,
                      !.result = Some(validateExpiry(i.role, i.expiryOption, now))]
    /\ UNCHANGED <<now, content, shortSlug, blobs, up, calls, cronSecret, sweep,
                   client, rateLimitMap, lastCleanup, edit, admitted>>

\* n times the character c
Repeat(c, n) == [i \in 1..n |-> c]

\* the filenames sanitizeFilename is given: with directories, unsafe and
\* non-ASCII characters, leading dots, nothing left after the clean-up, and
\* names longer than MAX_NAME_LENGTH without extension, with a short one,
\* with one of MAX_NAME_LENGTH characters and with a longer one
LongPlain      == Repeat("a", MAX_NAME_LENGTH + 1)
LongShortExt   == Repeat("a", MAX_NAME_LENGTH + 5) \o <<".","p","n","g">>
LongExtAtLimit == <<"a","b",".">> \o Repeat("x", MAX_NAME_LENGTH - 1)
LongExtBeyond  == <<"a",".">> \o Repeat("x", MAX_NAME_LENGTH + 50)
LongMidExt     == Repeat("a", 150) \o <<".">> \o Repeat("x", 60)

SanitizeInputs ==
    { PhotoName, TextName, HiddenName, NoExtName, CustomName, SeedName,
      <<>>, <<"/">>, <<".",".",".">>, <<".",".">>, <<".","e","n","v">>,
      <<"a","/","b","/","c",".","t","x","t">>, <<"a","/">>,
      <<"c",":","\\","x",".","p","d","f">>, <<"r","é","s","u","m","é",".","p","d","f">>,
      <<"a"," ","b","(","1",")",".","J","P","G">>, <<"a","b","c",".">>,
      <<".",".",".","a",".","."," ">>, UNNAMED_FILE,
      LongPlain, LongShortExt, LongExtAtLimit, LongExtBeyond, LongMidExt }

\* sanitizeFilename(filename)
ApplySanitizeFilename ==
    /\ pure.fn = "sanitizeFilename" /\ pure.result = NULL
    /\ pure' = [pure EXCEPT !.at = now,
                            !.result = Some(sanitizeFilename(ValueOf(pure.input)))]
    /\ UNCHANGED <<now, content, shortSlug, blobs, up, calls, cronSecret, sweep,
                   client, rateLimitMap, lastCleanup, edit, admitted>>

\* sanitizeFilename(content.filename) on a filename that sanitizeFilename
\* returned, as the serving routes do
ApplySanitizeAgain ==
    /\ pure.fn = "sanitizeFilename" /\ pure.result # NULL /\ pure.again = NULL
    /\ pure' = [pure EXCEPT !.again = Some(sanitizeFilename(ValueOf(pure.result)))]
    /\ UNCHANGED <<now, content, shortSlug, blobs, up, calls, cronSecret, sweep,
                   client, rateLimitMap, lastCleanup, edit, admitted>>

\* the lists of lib/config.ts, and lists where '.svg' has been added to the
\* allow-list while it is still on the block-list
ExtensionLists ==
    { [allowed |-> ALLOWED_EXTENSIONS, blocked |-> BLOCKED_EXTENSIONS],
      [allowed |-> ALLOWED_EXTENSIONS \cup {<<".","s","v","g">>},
       blocked |-> BLOCKED_EXTENSIONS] }

\* the filenames validateExtension is given
ExtensionNames ==
    { PhotoName, TextName, HiddenName, BlockedName, NoExtName, UnknownName,
      <<"h","t","m","l",".","j","p","g">>,
      <<"x",".","j","p","g",".","h","t","m","l">>,
      <<"x",".","H","T","M","L",".","j","p","g">>,
      <<"x",".","z","z","z",".","p","h","p",".","e","x","e",".","p","n","g">>,
      <<"x",".","s","v","g">>, <<"x",".","s","v","g",".","p","n","g">>,
      <<"x",".","t","a","r",".","g","z">>, <<"x",".","z","z","z",".","j","p","g">>,
      <<"x",".",".","j","p","g">>, <<"x",".">>, <<"x",".","h","t","m","l",".">>,
      <<".","h","t","a","c","c","e","s","s">>, <<".","j","p","g">>,
      <<"a",".","e","x","e",".","b","/","c">>,
      <<"a",".","j","s","/","c",".","p","n","g">> }

ExtensionInputs ==
    { [filename |-> f, lists |-> l] : f \in ExtensionNames, l \in ExtensionLists }

\* validateExtension(filename)
ApplyValidateExtension ==
    /\ pure.fn = "validateExtension" /\ pure.result = NULL
    /\ LET i == ValueOf(pure.input)
       IN  pure' = [pure EXCEPT
                      !.at = now,
                      !.result = Some(validateExtensionWith(i.filename, i.lists.allowed,
                                                            i.lists.blocked))]
    /\ UNCHANGED <<now, content, shortSlug, blobs, up, calls, cronSecret, sweep,
                   client, rateLimitMap, lastCleanup, edit, admitted>>

\* the stores validateStorageLimit reads: an empty one, and one where the
\* uploader's files, one unit below the quota, expire after the first hour
\* and the admin's permanent files are two units below the quota
QuotaStores ==
    { {},
      SeedFiles("u1", STORAGE_LIMITS("uploader") - 1, Some(HOUR_MS))
         \cup SeedFiles("a1", STORAGE_LIMITS("admin") - 2, NULL) }

\* the users, the roles (one of them unknown to STORAGE_LIMITS) and the file
\* sizes validateStorageLimit is called with
QuotaInputs ==
    { [userId |-> u, role |-> role, newFileSize |-> size] :
         u \in {"u1", "a1", "g1"}, role \in ExpiryRoles,
         size \in {0, 1, 2, 3, MAX_FILE_SIZE} }

\* validateStorageLimit(userId, role, newFileSize) at the current time
ApplyValidateStorageLimit ==
    /\ pure.fn = "validateStorageLimit" /\ pure.result = NULL
    /\ LET i == ValueOf(pure.input)
       IN  pure' = [pure EXCEPT
                      !.at = now,
                      !.result = Some(validateStorageLimit(i.userId, i.role,
                                                           i.newFileSize, now))]
    /\ UNCHANGED <<now, content, shortSlug, blobs, up, calls, cronSecret, sweep,
                   client, rateLimitMap, lastCleanup, edit, admitted>>

InitPure ==
    /\ now = 0
    /\ content \in QuotaStores
    /\ shortSlug = {}
    /\ blobs = { c.storagePath : c \in content }
    /\ up = [p \in Procs |-> IdleUp]
    /\ calls = [p \in Procs |-> {}]
    /\ cronSecret = NULL
    /\ sweep = IdleSweep
    /\ client = IdleClient
    /\ rateLimitMap = [ip \in Ips |-> NULL]
    /\ lastCleanup = 0
    /\ edit = [e \in Editors |-> IdleEdit]
    /\ pure \in PureStart("validateExpiry", ExpiryInputs)
                 \cup PureStart("sanitizeFilename", SanitizeInputs)
                 \cup PureStart("validateExtension", ExtensionInputs)
                 \cup PureStart("validateStorageLimit", QuotaInputs)
    /\ admitted = [ip \in Ips |-> {}]

NextPure ==
    \/ ApplyValidateExpiry
    \/ ApplySanitizeFilename
    \/ ApplySanitizeAgain
    \/ ApplyValidateExtension
    \/ ApplyValidateStorageLimit
    \/ Tick

SpecPure == InitPure /\ [][NextPure]_vars

(***************************************************************************)
(* Properties of validateExpiry                                            *)
(***************************************************************************)
Evaluated(fn) == pure.fn = fn /\ pure.result # NULL

\* what the claim says of one evaluation at time t
ExpiryAsStated(role, option, t, res) ==
    IF option = NULL \/ option = Some(OFF)
    THEN IF role = "admin"
         THEN res.valid /\ res.expiresAt = NULL
         ELSE ~res.valid /\ res.error = "Only admins can set content to never expire"
    ELSE LET hours == parseFloat(ValueOf(option))
         IN  IF hours.nan \/ hours.milli <= 0
             THEN ~res.valid /\ res.error = "Invalid expiry time"
             ELSE IF hours.milli * 60 < 5 * MILLI
             THEN ~res.valid /\ res.error = "Expiry must be at least 5 minutes"
             ELSE IF role # "admin" /\ hours.milli > 168 * MILLI
             THEN ~res.valid /\ res.error = "Uploaders can set expiry up to 168 hours"
             ELSE /\ res.valid
                  /\ res.expiresAt = Some(t + hours.milli * (HOUR_MS \div MILLI))

\* the examples the claim gives: "200" for an uploader and for an admin
ExpiryExamples(role, option, t, res) ==
    /\ (option = Some(<<"2","0","0">>) /\ role = "uploader") => ~res.valid
    /\ (option = Some(<<"2","0","0">>) /\ role = "admin")
          => res.valid /\ res.expiresAt = Some(t + 200 * HOUR_MS)
    /\ (option = Some(<<"1">>)) => res.valid /\ res.expiresAt = Some(t + HOUR_MS)
    /\ (option = Some(<<"0",".","0","5">>)) => ~res.valid

\* C13: validateExpiry, for every role and option: no expiry is valid for
\* the admin only (expiresAt null) and otherwise refused as not allowed; a
\* numeric option is invalid when not a positive number, too short below 5
\* minutes, too long above 168 hours for non-admins only, and otherwise
\* yields expiresAt = now + the hours asked for; an invalid result carries
\* no expiry value.
C13_ValidateExpiry ==
    Evaluated("validateExpiry") =>
        LET i   == ValueOf(pure.input)
            res == ValueOf(pure.result)
        IN  /\ ExpiryAsStated(i.role, i.expiryOption, pure.at, res)
            /\ ExpiryExamples(i.role, i.expiryOption, pure.at, res)
            /\ ~res.valid => res.expiresAt = NULL

\* "200" hours asked for by an uploader, after an hour has passed: too long
C13_Witness ==
    /\ Evaluated("validateExpiry")
    /\ pure.at = HOUR_MS
    /\ ValueOf(pure.input) = [role |-> "uploader", expiryOption |-> Some(<<"2","0","0">>)]
    /\ ~ValueOf(pure.result).valid
    /\ ValueOf(pure.result).error = "Uploaders can set expiry up to 168 hours"


(***************************************************************************)
(* Properties of the expiry of a committed record                         *)
(***************************************************************************)
\* C14: at the moment an upload commits a Content record, the record's
\* expiresAt is null or strictly later than the current time, however much
\* time has passed between the validation of the expiry and the commit.
C14_FutureExpiryAtCommit ==
    [][\A c \in content' \ content :
          c.expiresAt = NULL \/ ValueOf(c.expiresAt) > now']_vars


(***************************************************************************)
(* Properties of sanitizeFilename                                          *)
(***************************************************************************)
\* C15: for every input f, sanitizeFilename(f) is non-empty, consists only
\* of characters in [A-Za-z0-9._-], does not start with '.', and has at most
\* 200 characters, also for an input longer than 200 characters whose
\* extension is itself long.
C15_SanitizedIsSafe ==
    Evaluated("sanitizeFilename") =>
        LET out == ValueOf(pure.result)
        IN  /\ out # <<>>
            /\ \A i \in DOMAIN out : ~IsUnsafeChar(out[i])
            /\ out[1] # "."
            /\ Len(out) <= 200

\* C16: sanitizeFilename is idempotent: sanitizeFilename(sanitizeFilename(f))
\* equals sanitizeFilename(f) for every input f.
C16_SanitizeIdempotent ==
    (pure.fn = "sanitizeFilename" /\ pure.again # NULL)
        => ValueOf(pure.again) = ValueOf(pure.result)


(***************************************************************************)
(* Properties of validateExtension                                         *)
(***************************************************************************)
\* the interior dot-separated segments of a filename, each with its dot:
\* neither the first segment nor the last
InteriorSegments(filename) ==
    LET parts == SplitDots(toLowerCase(filename))
    IN  { <<".">> \o parts[i] : i \in 2..(Len(parts) - 1) }

\* the examples of the specification
ExtensionExamples(i, res) ==
    /\ i.filename = HiddenName
          => /\ ~res.valid
             /\ res.extension = <<".","h","t","m","l">>
             /\ res.error = "Filename contains blocked extension"
    /\ i.filename = PhotoName => res.valid /\ res.extension = <<".","j","p","g">>
    /\ i.filename = <<"h","t","m","l",".","j","p","g">> => res.valid
    /\ i.filename = <<"x",".","s","v","g">>
          => res.error = "File extension is blocked for security reasons"

\* C17: validateExtension accepts a filename exactly when its final
\* extension is in the allow-list and not in the block-list and no interior
\* segment is in the block-list; a blocked interior segment is rejected as a
\* hidden blocked extension that reports the segment even when the final
\* extension is allow-listed; an extension in both lists is rejected as
\* blocked.
C17_ValidateExtension ==
    Evaluated("validateExtension") =>
        LET i        == ValueOf(pure.input)
            res      == ValueOf(pure.result)
            ext      == toLowerCase(extname(i.filename))
            interior == InteriorSegments(i.filename)
        IN  /\ res.valid <=> /\ ext \in i.lists.allowed
                             /\ ext \notin i.lists.blocked
                             /\ interior \cap i.lists.blocked = {}
            /\ (interior \cap i.lists.blocked # {} /\ ext \in i.lists.allowed)
                  => /\ res.error = "Filename contains blocked extension"
                     /\ res.extension \in interior \cap i.lists.blocked
            /\ (ext \in i.lists.allowed \cap i.lists.blocked
                  /\ interior \cap i.lists.blocked = {})
                  => /\ res.error = "File extension is blocked for security reasons"
                     /\ res.extension = ext
            /\ ExtensionExamples(i, res)

\* 'x.svg' when '.svg' is in both lists: rejected as blocked
C17_Witness ==
    /\ Evaluated("validateExtension")
    /\ ValueOf(pure.input).filename = <<"x",".","s","v","g">>
    /\ <<".","s","v","g">> \in ValueOf(pure.input).lists.allowed
    /\ ~ValueOf(pure.result).valid
    /\ ValueOf(pure.result).error = "File extension is blocked for security reasons"


(***************************************************************************)
(* The preview route under requests from two IPs, the clock advancing by   *)
(* half a rate-limit window at a time, and by an hour.                     *)
(***************************************************************************)
RateIps == {"10.0.0.1", "10.0.0.2"}

\* the clock advances by half a window, at most MaxRateTicks times
MaxRateTicks == 3
RateStepMs == RATE_LIMIT_WINDOW_MS \div 2

RateTick ==
    /\ now < MaxRateTicks * RateStepMs
    /\ now' = now + RateStepMs
    /\ UNCHANGED <<content, shortSlug, blobs, up, calls, serveVars>>

\* the item the preview requests name
RateKeys == { <<"seed", "a1", 3>> }

InitRate ==
    /\ now = 0
    /\ content = ServeContent
    /\ shortSlug = ServeSlugs
    /\ blobs = { c.storagePath : c \in ServeContent }
               \cup { c.previewPath : c \in { d \in ServeContent : d.previewPath # NULL } }
    /\ up = [p \in Procs |-> IdleUp]
    /\ calls = [p \in Procs |-> {}]
    /\ cronSecret = NULL
    /\ sweep = IdleSweep
    /\ client = IdleClient
    /\ rateLimitMap = [ip \in RateIps |-> NULL]
    /\ lastCleanup = 0
    /\ edit = [e \in Editors |-> IdleEdit]
    /\ pure = IdlePure
    /\ admitted = [ip \in RateIps |-> {}]

NextRate ==
    \/ ServeStartOf({"/api/preview/[id]"}, RateKeys, {}, RateIps)
    \/ PreviewBurstOf(RateIps)
    \/ ServeRead
    \/ RateTick
    \/ Tick

SpecRate == InitRate /\ [][NextRate]_vars


(***************************************************************************)
(* Properties of the preview rate limiter                                  *)
(***************************************************************************)
\* t lies in the window of the entry: the window's resetAt has not passed
InWindow(entry, t) == entry # NULL /\ t <= ValueOf(entry).resetAt

\* the step answers a preview request with 429
Answers429 ==
    /\ client'.pc = "done"
    /\ client'.route = "/api/preview/[id]"
    /\ ValueOf(client'.response).status = 429

\* what a step may do to the entry of ip
C18_StepOf(ip) ==
    LET e  == rateLimitMap[ip]
        e2 == rateLimitMap'[ip]
    IN  e2 # e =>
          \/ \* a request of another IP removes the entry after its resetAt
             /\ e # NULL /\ now > ValueOf(e).resetAt
             /\ e2 = NULL
             /\ client'.ip # ip
          \/ \* a request of ip outside a window: let through, new window
             /\ ~InWindow(e, now)
             /\ e2 = Some([count |-> 1, resetAt |-> now + 60000])
             /\ client'.ip = ip /\ client'.at = now
             /\ ~Answers429
          \/ \* a request of ip inside its window: counted, and let through
             \* exactly when fewer than 120 came before it in the window
             /\ InWindow(e, now)
             /\ e2 # NULL
             /\ ValueOf(e2).resetAt = ValueOf(e).resetAt
             /\ ValueOf(e2).count = ValueOf(e).count + 1
             /\ client'.ip = ip /\ client'.at = now
             /\ Answers429 <=> ValueOf(e).count >= 120
             /\ Answers429 => client'.found = NULL
             /\ ~Answers429 => client'.pc = "read" \/ ValueOf(client'.response).status # 429
          \/ \* requests of ip inside its window, all let through
             /\ InWindow(e, now)
             /\ e2 # NULL
             /\ ValueOf(e2).resetAt = ValueOf(e).resetAt
             /\ ValueOf(e2).count > ValueOf(e).count
             /\ ValueOf(e2).count < 120
             /\ client' = client

\* the count of an entry is the number of requests of its window
RateEntriesCounted ==
    \A ip \in DOMAIN rateLimitMap :
       rateLimitMap[ip] # NULL => ValueOf(rateLimitMap[ip]).count >= 1

\* C18: per IP, from the request that opens a window until the window's
\* resetAt has passed, exactly the first 120 requests are let through and
\* every later one is answered 429 before any lookup; the first request
\* after resetAt is let through and opens a new window with count 1; the
\* requests of one IP never change the count of another IP.
C18_RateLimitPerIp ==
    /\ []RateEntriesCounted
    /\ [][\A ip \in DOMAIN rateLimitMap : C18_StepOf(ip)]_vars

\* one IP is refused with 429 after 120 requests while the window of the
\* other IP, opened at the same time, has counted a single request
C18_Witness ==
    /\ client.pc = "done" /\ client.ip = "10.0.0.1"
    /\ ValueOf(client.response).status = 429
    /\ InWindow(rateLimitMap["10.0.0.1"], now)
    /\ ValueOf(rateLimitMap["10.0.0.1"]).count = 121
    /\ InWindow(rateLimitMap["10.0.0.2"], now)
    /\ ValueOf(rateLimitMap["10.0.0.2"]).count = 1
    /\ ValueOf(rateLimitMap["10.0.0.2"]).resetAt = ValueOf(rateLimitMap["10.0.0.1"]).resetAt

RECURSIVE SumAdmitted(_)
SumAdmitted(H) ==
    IF H = {} THEN 0
    ELSE LET h == CHOOSE x \in H : TRUE
         IN  h.n + SumAdmitted(H \ {h})

\* C19: the limiter is a sliding window of one minute: for every IP and
\* every interval of 60 seconds, at most 120 preview requests of that IP
\* are let through.
C19_SlidingWindow ==
    \A ip \in DOMAIN admitted : SumAdmitted(admitted[ip]) <= 120


(***************************************************************************)
(* Properties of the role checks of the upload routes                      *)
(***************************************************************************)
NoEffectOf(p) ==
    /\ calls[p] = {}
    /\ ~\E c \in content : c.id = ContentIdOf(p)
    /\ ~\E s \in shortSlug : s.contentId = ContentIdOf(p)
    /\ \A b \in blobs : b[2] # UuidOf(p)

\* C20: an upload request of a caller who lacks the role is rejected before
\* any validation and any side effect: 401 without a session on both upload
\* routes, 403 for a guest on /api/upload, 403 for a guest and for an
\* uploader on /api/admin/upload; no blob is written and no Content or
\* ShortSlug record is created.
C20_RejectedBeforeValidation ==
    \A p \in Procs :
       IsDone(p) =>
          LET r == ValueOf(up[p].req)
          IN  /\ r.session = NULL
                    => /\ ResponseOf(p).status = 401
                       /\ ResponseOf(p).step = "auth"
                       /\ NoEffectOf(p)
              /\ (r.session # NULL /\ r.route = "upload"
                     /\ ValueOf(r.session).role = "guest")
                    => /\ ResponseOf(p).status = 403
                       /\ ResponseOf(p).step = "role"
                       /\ NoEffectOf(p)
              /\ (r.session # NULL /\ r.route = "admin"
                     /\ ValueOf(r.session).role \in {"guest", "uploader"})
                    => /\ ResponseOf(p).status = 403
                       /\ ResponseOf(p).step = "role"
                       /\ NoEffectOf(p)

\* an uploader is refused on /api/admin/upload with a request that would
\* also fail the size, extension and slug validations, while the other
\* request, of the admin, has gone through
C20_Witness ==
    /\ IsDone("p1")
    /\ ValueOf(up["p1"].req).route = "admin"
    /\ ValueOf(up["p1"].req).session = Uploader
    /\ ValueOf(up["p1"].req).shortSlug = Some(SlugBad)
    /\ ResponseOf("p1").status = 403
    /\ Succeeded("p2")


(***************************************************************************)
(* Properties of the preview generation                                    *)
(***************************************************************************)
\* the Content record of request p
RecordsOf(p) == { c \in content : c.id = ContentIdOf(p) }

\* the preview step of an upload ends in the commit step, never in the
\* catch block; without a preview no blob is written and previewPath is null
C21_PreviewStep ==
    \A p \in Procs :
       (up[p].pc = "preview" /\ up'[p] # up[p])
       => /\ up'[p].pc = "commit"
          /\ up'[p].error = NOERROR
          /\ ~isPreviewable(lookup(OriginalName(ValueOf(up[p].req))))
                => up'[p].previewPath = NULL
          /\ up'[p].previewPath = NULL => (blobs' = blobs /\ calls' = calls)
          /\ up'[p].previewPath # NULL => up'[p].previewPath \in blobs'

\* the transaction of an upload without preview creates the record with
\* previewPath null unless the quota re-check throws, and the handler goes
\* on to the slug or answers 200
C21_CommitStep ==
    \A p \in Procs :
       (/\ up[p].pc = "commit" /\ up'[p] # up[p]
        /\ up[p].previewPath = NULL
        /\ ~StorageCheckFails(UserOf(p).id, UserOf(p).role,
                              ValueOf(ValueOf(up[p].req).file).size, now))
       => /\ \E c \in content' \ content :
                c.id = ContentIdOf(p) /\ c.previewPath = NULL
          /\ \/ up'[p].pc = "slug"
             \/ up'[p].pc = "done" /\ ValueOf(up'[p].response).status = 200

\* a successful upload that saved no preview has its record, with
\* previewPath null
PreviewlessRecorded ==
    \A p \in Procs :
       (Succeeded(p) /\ OpCalls(p, "savePreview") = {})
       => /\ RecordsOf(p) # {}
          /\ \A c \in RecordsOf(p) : c.previewPath = NULL

\* C21: preview generation is best-effort: when the MIME type is not
\* previewable, when the image cannot be processed or when saving the
\* preview fails, generateAndSavePreview returns null without throwing, and
\* the upload still commits its Content record with previewPath = null and
\* reports success.
C21_PreviewBestEffort ==
    []PreviewlessRecorded /\ [][C21_PreviewStep /\ C21_CommitStep]_vars

\* an upload of a previewable image succeeded without preview, and an upload
\* of a text file, both with previewPath null in their records
C21_Witness ==
    /\ Succeeded("p1") /\ Succeeded("p2")
    /\ isPreviewable(lookup(OriginalName(ValueOf(up["p1"].req))))
    /\ ~isPreviewable(lookup(OriginalName(ValueOf(up["p2"].req))))
    /\ \A p \in Procs : OpCalls(p, "savePreview") = {}
    /\ \A p \in Procs : \E c \in RecordsOf(p) : c.previewPath = NULL


(***************************************************************************)
(* An admin deleting content and a client of the serving routes, one       *)
(* request after the other, on the store of the serving routes             *)
(***************************************************************************)
InitDelete ==
    /\ now = 0
    /\ content = ServeContent
    /\ shortSlug = ServeSlugs
    /\ blobs = { c.storagePath : c \in ServeContent }
               \cup { c.previewPath : c \in { d \in ServeContent : d.previewPath # NULL } }
    /\ up = [p \in Procs |-> IdleUp]
    /\ calls = [p \in Procs |-> {}]
    /\ cronSecret = NULL
    /\ sweep = IdleSweep
    /\ client = IdleClient
    /\ rateLimitMap = [ip \in Ips |-> NULL]
    /\ lastCleanup = 0
    /\ edit = [e \in Editors |-> IdleEdit]
    /\ pure = IdlePure
    /\ admitted = [ip \in Ips |-> {}]

NextDelete ==
    \/ AdminDeleteStart
    \/ AdminDeleteFile
    \/ AdminDeletePreview
    \/ AdminDeleteRecord
    \/ ServeStart
    \/ ServeRead
    \/ Tick

SpecDelete == InitDelete /\ [][NextDelete]_vars

(***************************************************************************)
(* Properties of admin DELETE                                              *)
(***************************************************************************)
\* the DELETE request has answered {success: true}
DeleteSucceeded ==
    /\ client.route = "DELETE" /\ client.pc = "done"
    /\ ValueOf(client.response).status = 200

\* the slugs that referenced the item when the store was set up
FormerSlugs(id) == { r.slug : r \in { x \in ServeSlugs : x.contentId = id } }

\* the record and the slugs of the deleted item are gone, its primary blob
\* is deleted, and the serving handlers find nothing under its id and slugs
DeletedItemIsGone ==
    LET c == ValueOf(client.found)
    IN  /\ findContent(c.id) = NULL
        /\ \A r \in shortSlug : r.contentId # c.id
        /\ c.storagePath \notin blobs
        /\ \A route \in IdRoutes :
              ServeOutcome(route, c.id, now).response.status = 404
        /\ \A route \in SlugRoutes : \A slug \in FormerSlugs(c.id) :
              ServeOutcome(route, slug, now).response.status = 404

\* the preview blob of the deleted item is deleted
PreviewBlobDeleted ==
    LET c == ValueOf(client.found)
    IN  c.previewPath # NULL => c.previewPath \notin blobs

\* the rejection of the preview's deleteFile was swallowed by deletePreview
PreviewDeleteFailed ==
    \E j \in DOMAIN client.log :
       client.log[j].op = "deletePreview" /\ ~client.log[j].ok

\* a step of the DELETE request changes nothing but the record, the slugs
\* and the two blobs of its item
C22_Frame ==
    (client.route = "DELETE" /\ client.pc \in {"delFile", "delPreview", "delRecord"})
    => LET c == ValueOf(client.found)
       IN  /\ content' \subseteq content
           /\ \A d \in content \ content' : d.id = c.id
           /\ shortSlug' \subseteq shortSlug
           /\ \A r \in shortSlug \ shortSlug' : r.contentId = c.id
           /\ blobs' \subseteq blobs
           /\ blobs \ blobs' \subseteq {c.storagePath, c.previewPath}

\* a serving request for an id without record, or a slug without record,
\* answers 404 at once
C22_ServeStep ==
    (/\ client.pc \in {"idle", "done"}
     /\ client' # client
     /\ client'.route \in ServeRoutes
     /\ IF client'.route \in SlugRoutes
        THEN findSlugContent(client'.key) = NULL
        ELSE findContent(client'.key) = NULL)
    => /\ client'.pc = "done"
       /\ ValueOf(client'.response).status = 404
       /\ ValueOf(client'.response).bytes = NULL

UsageAsStated(userId, t) ==
    SumSizes({ c \in content :
                 /\ c.uploadedById = userId
                 /\ ~(c.expiresAt # NULL /\ ValueOf(c.expiresAt) <= t) })

\* what the claim says of one evaluation at time t
QuotaAsStated(i, t, res) ==
    LET usage == UsageAsStated(i.userId, t)
    IN  IF i.role \notin {"admin", "uploader"}
        THEN /\ ~res.valid
             /\ res.error = "Your role does not allow uploads"
        ELSE IF usage + i.newFileSize > STORAGE_LIMITS(i.role)
        THEN /\ ~res.valid
             /\ res.error = "Storage limit exceeded"
             /\ res.currentUsage = usage
             /\ res.limit = STORAGE_LIMITS(i.role)
        ELSE res.valid

\* an evaluation of validateStorageLimit leaves the store as it is
C23_ReadOnly ==
    (pure.fn = "validateStorageLimit" /\ pure' # pure)
    => UNCHANGED <<content, shortSlug, blobs>>

\* C23: validateStorageLimit(user, role, size) rejects with the
\* uploads-not-allowed error when the role's quota is 0 or the role is
\* unknown, rejects with the quota-exceeded error reporting current usage
\* and limit when activeUsage + size > quota, and admits otherwise,
\* including the boundary activeUsage + size = quota; it never writes to
\* the store.
C23_ValidateStorageLimit ==
    /\ [](Evaluated("validateStorageLimit") =>
            QuotaAsStated(ValueOf(pure.input), pure.at, ValueOf(pure.result)))
    /\ [][C23_ReadOnly]_vars

\* the uploader's files are one unit below the quota and a file of one unit
\* is admitted
C23_Witness ==
    /\ Evaluated("validateStorageLimit")
    /\ ValueOf(pure.input).role = "uploader"
    /\ ValueOf(pure.input).newFileSize = 1
    /\ UsageAsStated(ValueOf(pure.input).userId, pure.at) + 1
          = STORAGE_LIMITS("uploader")
    /\ ValueOf(pure.result).valid


(***************************************************************************)
(* Properties of the order of the validations                              *)
(***************************************************************************)
\* the validations of an upload in their order; the directory and the slug
\* are validated on the admin route only
ValidationOrder ==
    <<"size", "extension", "storage", "expiry", "directory", "slugFormat",
      "slugCollision">>

\* validation `step` of request r would fail in the current state
WouldFail(step, r) ==
    LET user == ValueOf(r.session)
        file == ValueOf(r.file)
    IN  CASE step = "size" -> ~validateFileSize(file.size).valid
          [] step = "extension" -> ~validateExtension(OriginalName(r)).valid
          [] step = "storage" ->
                ~validateStorageLimit(user.id, user.role, file.size, now).valid
          [] step = "expiry" ->
                ~validateExpiry(user.role, ExpiryOption(r), now).valid
          [] step = "directory" ->
                /\ r.route = "admin" /\ ~IsFalsy(r.directory)
                /\ \A d \in AllowedDirectories : d.name # ValueOf(r.directory)
          [] step = "slugFormat" ->
                /\ r.route = "admin" /\ ~IsFalsy(r.shortSlug)
                /\ ~validateShortSlug(ValueOf(r.shortSlug)).valid
          [] step = "slugCollision" ->
                /\ r.route = "admin" /\ ~IsFalsy(r.shortSlug)
                /\ validateShortSlug(ValueOf(r.shortSlug)).valid
                /\ SlugBoundTo(validateShortSlug(ValueOf(r.shortSlug)).slug) # {}

\* the validations of r that would fail, by their place in the order
FailingSteps(r) ==
    { k \in DOMAIN ValidationOrder : WouldFail(ValidationOrder[k], r) }

\* the request passed authentication, the role check and carries a file
ReachesValidation(r) ==
    /\ r.session # NULL
    /\ Authorized(r.route, ValueOf(r.session).role)
    /\ r.file # NULL

\* a request arrives: it is answered at once with the error of the first of
\* the validations before the slug collision that would fail, and goes on
\* when none would
C24_StartStep ==
    \A p \in Procs :
       (/\ up[p].pc = "idle" /\ up'[p].pc # "idle"
        /\ ReachesValidation(ValueOf(up'[p].req)))
       => LET r     == ValueOf(up'[p].req)
              early == FailingSteps(r) \ {Len(ValidationOrder)}
          IN  IF early = {}
              THEN up'[p].pc \in {"slugcheck", "save"}
              ELSE /\ up'[p].pc = "done"
                   /\ ValueOf(up'[p].response).status = 400
                   /\ ValueOf(up'[p].response).step = ValidationOrder[Min(early)]

\* the collision check is the last validation: it is reached only by a
\* request whose earlier validations passed, and answers 409 or goes on to
\* write the blob
C24_CollisionStep ==
    \A p \in Procs :
       (up[p].pc = "slugcheck" /\ up'[p] # up[p])
       => IF WouldFail("slugCollision", ValueOf(up[p].req))
          THEN /\ up'[p].pc = "done"
               /\ ValueOf(up'[p].response).step = "slugCollision"
          ELSE up'[p].pc = "save"

\* a request answered with a validation error has made no later step: no
\* storage call, and no record, slug or blob of its own
C24_NothingAfterFailure ==
    \A p \in Procs :
       (IsDone(p) /\ ResponseOf(p).step \in Range(ValidationOrder))
       => NoEffectOf(p)

\* C24: when several validations of one upload would fail, the reported
\* error is that of the first failing step in the fixed order: file size,
\* extension, quota pre-check, expiry, directory, slug format, slug
\* collision; later steps are not evaluated once one has failed.
C24_FirstFailureReported ==
    /\ []C24_NothingAfterFailure
    /\ [][C24_StartStep /\ C24_CollisionStep]_vars

\* an admin upload over the quota, with an expiry that is no number, a
\* directory that is not allowed and a malformed slug is refused by the
\* quota pre-check
C24_Witness ==
    \E p \in Procs :
       /\ IsDone(p) /\ ResponseOf(p).step = "storage"
       /\ ValueOf(up[p].req).route = "admin"
       /\ \A step \in {"expiry", "directory", "slugFormat"} :
             WouldFail(step, ValueOf(up[p].req))


(***************************************************************************)
(* Uploads, admin edits of the expiry and cleanup sweeps on one store: the *)
(* uploader's files fill the quota, one of them expires at the first hour. *)
(***************************************************************************)
LifeContent ==
    { SeedRecord("u1", k, MAX_FILE_SIZE, Some(MAX_EXPIRY_HOURS_UPLOADER * HOUR_MS)) :
         k \in 1..(STORAGE_LIMITS("uploader") \div MAX_FILE_SIZE - 1) }
    \cup { SeedRecord("u1", STORAGE_LIMITS("uploader") \div MAX_FILE_SIZE,
                      MAX_FILE_SIZE, Some(HOUR_MS)) }

\* the file that expires at the first hour
Expiring == <<"seed", "u1", STORAGE_LIMITS("uploader") \div MAX_FILE_SIZE>>

\* the uploads of the uploader: a small file and one of MAX_FILE_SIZE
LifeRequests ==
    { BaseUpload,
      [BaseUpload EXCEPT !.file = Some([name |-> PhotoName, size |-> MAX_FILE_SIZE])] }

\* the admin's edits of the expiring file: made permanent, its expiry moved
\* to the end of the model's time, and its filename alone changed
LifeEdits ==
    { [BasePut EXCEPT !.id = Expiring, !.expiresAt = Some(NULL)],
      [BasePut EXCEPT !.id = Expiring, !.expiresAt = Some(Some((MaxTicks + 1) * HOUR_MS))],
      [BasePut EXCEPT !.id = Expiring, !.filename = Some(CustomName)] }

InitLife ==
    /\ now = 0
    /\ content = LifeContent
    /\ shortSlug = {}
    /\ blobs = { c.storagePath : c \in LifeContent }
    /\ up = [p \in Procs |-> IdleUp]
    /\ calls = [p \in Procs |-> {}]
    /\ cronSecret = Some(SecretK1)
    /\ sweep = IdleSweep
    /\ client = IdleClient
    /\ rateLimitMap = [ip \in Ips |-> NULL]
    /\ lastCleanup = 0
    /\ edit = [e \in Editors |-> IdleEdit]
    /\ pure = IdlePure
    /\ admitted = [ip \in Ips |-> {}]

NextLife ==
    \/ UploadStartOf("p1", LifeRequests)
    \/ UploadSaveFile("p1")
    \/ UploadPreview("p1")
    \/ UploadCommit("p1")
    \/ UploadCleanupFile("p1")
    \/ UploadCleanupPreview("p1")
    \/ EditStartOf("e1", LifeEdits)
    \/ EditUpdate("e1")
    \/ EditFinish("e1")
    \/ SweepStart
    \/ SweepQuery
    \/ SweepDeleteFile
    \/ SweepDeleteRecord
    \/ Tick

SpecLife == InitLife /\ [][NextLife]_vars

(***************************************************************************)
(* Properties of the quota over the life of the content                    *)
(***************************************************************************)
\* C25: after any sequence of uploads, admin edits (PUT that changes
\* expiresAt, including making an expired or expiring item permanent or
\* moving its expiry into the future) and cleanup sweeps, every user's sum
\* of active Content sizes stays at most the quota of that user's role.
C25_QuotaHoldsAfterEdits ==
    \A userId \in Users : ActiveUsage(userId, now) <= STORAGE_LIMITS(RoleOf(userId))


(***************************************************************************)
(* Properties of the expiry boundary                                       *)
(***************************************************************************)
\* the quota checks count record c at time t
CountedByQuota(c, t) ==
    ActiveUsage(c.uploadedById, t)
       # SumSizes({ d \in content : d.uploadedById = c.uploadedById
                                     /\ IsActive(d, t) /\ d # c })
    \/ (c.fileSize = 0 /\ IsActive(c, t))

\* the read paths answer 410 for record c at time t
ExpiredOnRead(c, t) ==
    LET out == ServeOutcome("/api/content/[id]", c.id, t)
    IN  out.returned /\ out.response.status = 410

\* the query of a sweep at time t returns record c
SelectedBySweep(c, t) ==
    \E k \in DOMAIN Rows({ d \in content : SelectsExpired(d, t) }) :
       Rows({ d \in content : SelectsExpired(d, t) })[k] = c

\* C26: at every time instant, including the instant now = expiresAt, a
\* Content record is counted in its owner's active usage by the quota checks
\* exactly when the read paths would serve it (not report it as expired),
\* and it is selected by the cleanup sweep exactly when the read paths would
\* report it as expired.
C26_BoundaryConsistent ==
    \A c \in content :
       /\ CountedByQuota(c, now) <=> ~ExpiredOnRead(c, now)
       /\ SelectedBySweep(c, now) <=> ExpiredOnRead(c, now)

(***************************************************************************)
(* Properties of the sweep beside admin edits                              *)
(***************************************************************************)
\* a step of the sweep on an item whose record is, at that moment, without
\* expiry or expiring in the future deletes neither the record nor a blob
C27_Step ==
    (sweep.pc \in {"file", "preview", "record"} /\ sweep' # sweep)
    => LET item == sweep.expired[sweep.i]
           cur  == findContent(item.id)
       IN  (cur # NULL /\ IsActive(ValueOf(cur), now))
           => (content' = content /\ blobs' = blobs)

\* C27: a cleanup sweep never deletes a Content record or its blob that is
\* non-expired (expiresAt null or in the future) at the moment of that
\* deletion, also when an admin PUT changes the item's expiresAt between the
\* sweep's query for expired items and the sweep's per-item deletion.
C27_SweepDeletesExpiredOnly == [][C27_Step]_vars


(***************************************************************************)
(* Properties of a failed admin edit                                       *)
(***************************************************************************)
\* editor e is the only request that has run on the store
RanAlone(e) ==
    /\ \A f \in Editors \ {e} : edit[f].pc = "idle"
    /\ \A p \in Procs : up[p].pc = "idle"
    /\ client.pc = "idle"

\* the slugs of an item
SlugsOf(id) == { s.slug : s \in { x \in shortSlug : x.contentId = id } }

\* C28: an admin PUT on a Content item that returns an error status (400
\* for an invalid slug, 409 for a taken slug, 500 for a failed store
\* operation) leaves the item's filename, expiresAt and set of slugs exactly
\* as they were before the request.
C28_FailedEditChangesNothing ==
    \A e \in Editors :
       (/\ EditFailed(edit[e]) /\ edit[e].existing # NULL
        /\ ValueOf(edit[e].response).status \in {400, 409, 500}
        /\ RanAlone(e))
       => LET before == ValueOf(edit[e].existing)
              after  == findContent(before.id)
          IN  /\ after # NULL
              /\ ValueOf(after).filename = before.filename
              /\ ValueOf(after).expiresAt = before.expiresAt
              /\ SlugsOf(before.id)
                    = { s.slug : s \in { x \in EditSlugs : x.contentId = before.id } }


(***************************************************************************)
(* The rate-limit table across a cleanup: the preview route under requests *)
(* from two IPs, the clock brought to half a window before the first       *)
(* cleanup is due and then advancing by half a window at a time.           *)
(***************************************************************************)
\* the quiet time before the first cleanup is due
QuietMs == CLEANUP_INTERVAL_MS - RateStepMs

QuietTick ==
    /\ now = 0
    /\ now' = QuietMs
    /\ UNCHANGED <<content, shortSlug, blobs, up, calls, serveVars>>

TableTick ==
    /\ now >= QuietMs
    /\ now < QuietMs + MaxRateTicks * RateStepMs
    /\ now' = now + RateStepMs
    /\ UNCHANGED <<content, shortSlug, blobs, up, calls, serveVars>>

NextTable ==
    \/ ServeStartOf({"/api/preview/[id]"}, RateKeys, {}, RateIps)
    \/ PreviewBurstOf(RateIps)
    \/ ServeRead
    \/ QuietTick
    \/ TableTick

SpecTable == InitRate /\ [][NextTable]_vars

\* the step is a checkRateLimit call whose cleanup went through the table
CleanupRan == lastCleanup' # lastCleanup

\* ip is limited: its window has not passed and has counted the maximum
Limited(ip, t) ==
    /\ InWindow(rateLimitMap[ip], t)
    /\ ValueOf(rateLimitMap[ip]).count >= RATE_LIMIT_MAX_REQUESTS

\* what a step may do to the entry of ip
C29_StepOf(ip) ==
    LET e  == rateLimitMap[ip]
        e2 == rateLimitMap'[ip]
    IN  /\ \* a rejected request keeps the resetAt of its IP's entry
           (Answers429 /\ client'.ip = ip) =>
              /\ e # NULL /\ e2 # NULL
              /\ ValueOf(e2).resetAt = ValueOf(e).resetAt
        /\ \* an entry is removed or replaced only after its resetAt
           (e # NULL /\ (e2 = NULL \/ ValueOf(e2).resetAt # ValueOf(e).resetAt)) =>
              now > ValueOf(e).resetAt
        /\ \* an entry inside its window keeps what it has counted
           InWindow(e, now) => e2 # NULL /\ ValueOf(e2).count >= ValueOf(e).count
        /\ \* a cleanup removes every other entry whose resetAt has passed
           (CleanupRan /\ client'.ip # ip /\ e # NULL /\ now > ValueOf(e).resetAt) =>
              e2 = NULL
        /\ \* a limited IP is not let through, cleanup or not
           (Limited(ip, now) /\ client' # client /\ client'.ip = ip /\ client'.at = now
              /\ client.pc \in {"idle", "done"}) =>
              Answers429

\* C29: in the preview rate-limit table a rejected request never changes
\* the resetAt of its IP's entry, and the periodic cleanup removes only
\* entries whose resetAt has already passed, so an IP that is still limited
\* within its window is never let through again.
C29_CleanupKeepsLimits ==
    [][\A ip \in DOMAIN rateLimitMap : C29_StepOf(ip)]_vars

\* a cleanup has just run at this instant, on a request of the other IP,
\* and the limited IP, whose window opened before the cleanup, is refused
C29_Witness ==
    /\ lastCleanup = now /\ now > 0
    /\ Limited("10.0.0.1", now)
    /\ ValueOf(rateLimitMap["10.0.0.1"]).resetAt < now + RATE_LIMIT_WINDOW_MS
    /\ rateLimitMap["10.0.0.2"] # NULL
    /\ ValueOf(rateLimitMap["10.0.0.2"]).resetAt = now + RATE_LIMIT_WINDOW_MS
    /\ client.pc = "done" /\ client.ip = "10.0.0.1" /\ client.at = now
    /\ ValueOf(client.response).status = 429


(***************************************************************************)
(* The hourly cron job: cleanup requests, with any header, on a store      *)
(* whose files expire as the clock advances.  The cron job keeps posting   *)
(* with the secret of the server, the store keeps answering the query, and *)
(* a deletion that is tried again and again succeeds in the end.           *)
(***************************************************************************)
\* two files that expire together, one that expires later, a permanent one
CronContent ==
    { WithPreview(SeedRecord("u1", 1, 1, Some(HOUR_MS \div 2))),
      SeedRecord("u1", 2, 1, Some(HOUR_MS \div 2)),
      WithPreview(SeedRecord("u1", 3, 1, Some(HOUR_MS))),
      WithPreview(SeedRecord("a1", 4, 1, NULL)) }

InitCron ==
    /\ now = 0
    /\ content = CronContent
    /\ shortSlug = {}
    /\ blobs = { c.storagePath : c \in CronContent }
               \cup { c.previewPath : c \in { d \in CronContent : d.previewPath # NULL } }
    /\ up = [p \in Procs |-> IdleUp]
    /\ calls = [p \in Procs |-> {}]
    /\ cronSecret = Some(SecretK1)
    /\ sweep = IdleSweep
    /\ client = IdleClient
    /\ rateLimitMap = [ip \in Ips |-> NULL]
    /\ lastCleanup = 0
    /\ edit = [e \in Editors |-> IdleEdit]
    /\ pure = IdlePure
    /\ admitted = [ip \in Ips |-> {}]

\* await prisma.content.delete({where: {id: item.id}}) rejected by the
\* store: caught, errors++, the record stays
SweepDeleteRecordRejected ==
    /\ sweep.pc = "record"
    /\ LET item == sweep.expired[sweep.i]
       IN  sweep' = SweepNext([sweep EXCEPT
                                 !.log = Append(@, LogEntry("content.delete", item.id,
                                                            item.storagePath, FALSE)),
                                 !.errors = @ + 1])
    /\ UNCHANGED <<now, content, shortSlug, blobs, up, calls, edit, pure, admitted, cronSecret,
                   client, rateLimitMap, lastCleanup>>

NextCron ==
    \/ SweepStart
    \/ SweepQuery
    \/ SweepDeleteFile
    \/ SweepDeletePreview
    \/ SweepDeleteRecord
    \/ SweepDeleteRecordRejected
    \/ Tick

\* the step ends with a successful call: the last entry of the log
LastCallSucceeded ==
    /\ Len(sweep'.log) = Len(sweep.log) + 1
    /\ sweep'.log[Len(sweep'.log)].ok

\* crontab posts every hour with the CRON_SECRET of the server; the query
\* and the deletions succeed in the end when they are tried again and again
CronFairness ==
    /\ WF_vars(SweepStart /\ sweep'.pc = "query")
    /\ SF_vars(SweepQuery /\ sweep'.queriedAt # NULL)
    /\ SF_vars(SweepDeleteFile /\ LastCallSucceeded)
    /\ SF_vars(SweepDeletePreview /\ LastCallSucceeded)
    /\ SF_vars(SweepDeleteRecord /\ LastCallSucceeded)

SpecCron == InitCron /\ [][NextCron]_vars /\ CronFairness

(***************************************************************************)
(* Properties of the repeated sweeps                                       *)
(***************************************************************************)
CronExpiring == { c \in CronContent : c.expiresAt # NULL }

\* the record is in the store and its expiresAt has passed
ExpiredInStore(c) == c \in content /\ SelectsExpired(c, now)

\* the record and its blob are gone
Reclaimed(c) == c \notin content /\ c.storagePath \notin blobs

\* the preview of the record, if it has one, is gone
PreviewReclaimed(c) == c.previewPath # NULL => c.previewPath \notin blobs

\* the item of the step of the loop
CronItem == sweep.expired[sweep.i]

\* the sweep has logged a failed deletePreview of the item
PreviewDeletionFailed(s, id) ==
    \E k \in 1..Len(s.log) :
       s.log[k].op = "deletePreview" /\ s.log[k].id = id /\ ~s.log[k].ok

\* the steps of a sweep: an item that errors keeps its record; a record is
\* removed after its blob, and its preview stays only when its deletion
\* failed; the query finds every record whose expiresAt has passed
C30_Step ==
    /\ (sweep.pc \in {"file", "preview", "record"} /\ sweep'.errors > sweep.errors) =>
          /\ CronItem \in content'
          /\ sweep'.deleted = sweep.deleted
    /\ content' # content =>
          /\ sweep.pc = "record"
          /\ content' = content \ {CronItem}
          /\ CronItem.storagePath \notin blobs'
          /\ (CronItem.previewPath # NULL /\ CronItem.previewPath \in blobs') =>
                PreviewDeletionFailed(sweep', CronItem.id)
    /\ (sweep.pc = "query" /\ sweep'.queriedAt # NULL) =>
          { sweep'.expired[k] : k \in 1..Len(sweep'.expired) }
             = { c \in content : SelectsExpired(c, now) }

====
